---- MODULE Spec2Model ----
(***************************************************************************)
(* PTYInterceptor (src/src/sentry_tui/pty_core.py): the process supervisor *)
(* of logtui.  The model follows the code statement by statement: every    *)
(* `with self._state_lock:` block is one atomic step, every other          *)
(* statement that reads or writes a shared attribute is a step of its own, *)
(* so that the caller's thread, the watchdog threads (_monitor_process)    *)
(* and the refresh tasks interleave as Python threads do.                  *)
(*                                                                         *)
(* Thread 0 is the caller (the UI thread).  Thread k >= 1 is the watchdog  *)
(* thread that start() launched for child k.                               *)
(***************************************************************************)
EXTENDS Integers, Sequences, FiniteSets, TLC

\* ---------------------------------------------------------------- bounds
\* Children the operating system lets the supervisor spawn in one run.
MaxSpawn == 2
\* The same for the runs of SpecRace, where a start() meets an auto-restart.
RaceSpawn == 3
\* The value of max_restart_attempts (5 unless the owner of the object
\* assigns another).
MaxAttempts == 1
\* Calls of start(), stop() and restart() the caller makes in one run.
MaxCalls == 2
MaxOut == 3

\* ------------------------------------------------------------ ProcessState
STOPPED == "stopped"
STARTING == "starting"
RUNNING == "running"
STOPPING == "stopping"
RESTARTING == "restarting"
CRASHED == "crashed"
ProcessState == {STOPPED, STARTING, RUNNING, STOPPING, RESTARTING, CRASHED}

Caller == 0
Children == 1..(IF RaceSpawn > MaxSpawn THEN RaceSpawn ELSE MaxSpawn)
Monitors == Children
\* The thread _check_process_ready_indicators starts (line 237) to run
\* _wait_for_process_ready_and_update_info; one per run.
Refresher == Cardinality(Children) + 1
\* The reader thread (_read_output), as far as it invokes callbacks.
Reader == Cardinality(Children) + 2
\* The reader thread of the session of child c (line 325), followed through
\* _read_output and _process_output.
ReaderOf(c) == Reader + c
Readers == {ReaderOf(c) : c \in Children}
Threads == {Caller} \cup Monitors \cup {Refresher, Reader} \cup Readers
\* The callbacks the owner of the supervisor registers; those in Raising
\* raise an exception whenever they are invoked.
Cbs == {1, 2, 3}
Raising == {1}
\* The callbacks that call get_status() on the supervisor, as the
\* application's does (app.py, lines 210-219).
Reentrant == {3}
\* Ports a scan of the child's sockets can report.
Ports == {8000, 8080}
\* Descriptor numbers; the system hands out the lowest free one.
Fds == Children
\* None (Python) for the child handle and for the PTY master.
None == 0
ExitCodes == {0, 1}

VARIABLES
  \* --- attributes of PTYInterceptor
  state, running, process, master_fd, stop_event, process_ready_event,
  auto_restart, restart_count, max_restart_attempts,
  lock,         \* _state_lock: the set of threads that hold it, none or one
  detected_ports, process_info, last_known_ports,
  \* --- the operating system: children and descriptors
  child,        \* child[c]: "never" (the system refuses to spawn it) | "none" (not
                \*   yet spawned) | "alive" | "termed" (alive, SIGTERM sent by
                \*   stop()) | "zombie" (exited, not reaped) | "reaped"
  code,         \* code[c]: exit status of a child that has exited
  fd,           \* fd[f]: "none" | "open" | "attached" (open, and a child was
                \*   spawned on its slave end); a closed descriptor is free again
  \* --- threads
  pc,           \* pc[t]: the statement thread t executes next
  ctx,          \* ctx[t]: who called the method t is in: "top" | "restart" |
                \*   "shutdown" | "monitor"
  force,        \* force[t]: the force argument of stop()/restart()
  pend,         \* pend[t]: state value _set_state still has to pass to callbacks
  after,        \* after[t]: statement following the callbacks of _set_state
  loc,          \* loc[t]: locals of _monitor_process / restart
  \* --- callbacks
  state_callbacks,  \* the list of registered callbacks
  snap,         \* snap[t]: the callbacks thread t has copied and not yet invoked
  got,          \* got[c]: the value callback c received last, "none" before any
  \* --- the caller's history
  last,         \* how the caller's last call ended: the method, whether it raised,
                \*   and for stop() whether it had found the state Running
  calls,        \* number of calls the caller has made
  \* --- output
  buffer,       \* self.buffer: the text of the line not yet complete
  pipe,         \* pipe[c]: what child c has written to its PTY and no reader
                \*   has read yet
  delivered,    \* the arguments on_output has been called with, in order
  fed,          \* the text appended to the buffer so far (line 360)
  tty,          \* tty[c]: the master of the PTY child c was spawned on
  fired         \* how often a line has set the readiness flag (lines 237-243)

sup == <<state, running, process, master_fd, stop_event, process_ready_event,
         auto_restart, restart_count, max_restart_attempts, lock>>
info == <<detected_ports, process_info, last_known_ports>>
os == <<child, code, fd>>
thr == <<pc, ctx, force, pend, after, loc>>
obs == <<last, calls>>
cbv == <<state_callbacks, snap, got>>
lin == <<buffer, pipe, delivered, fed, tty, fired>>
vars == <<sup, info, os, thr, obs, cbv, lin>>

\* What a thread holds as the result of get_status() before it has called it
\* (ret tells whether a call has returned; of the dictionary of lines 559-568
\* the entries "pid" and "ports" are kept).
NoStatus == [ret |-> FALSE, pid |-> None, ports |-> <<>>]

\* What one method of port discovery comes to: it reports the ports in
\* `ports` ("ok"), cannot be used ("missing": the import of psutil fails;
\* "fails": the tool is not installed or times out), or raises another error.
Outcome(how, ports) == [how |-> how, ports |-> ports]
\* The answers of the three methods to one scan, before any scan was made.
NoProbe == [psutil |-> Outcome("missing", {}), netstat |-> Outcome("fails", {}),
            lsof |-> Outcome("fails", {})]

NoLoc == [exit_code |-> 0, is_manual_stop |-> FALSE, current_state |-> STOPPED,
          tmp |-> 0, preserved |-> {}, spawned |-> 0, lkp |-> {}, fr |-> FALSE,
          ports |-> {}, sig |-> FALSE, sigs |-> <<>>, gone |-> FALSE,
          closes |-> 0, oserr |-> FALSE, afterstop |-> FALSE, gsret |-> "idle",
          status |-> NoStatus, text |-> <<>>, lines |-> <<>>,
          before |-> FALSE, toggled |-> FALSE, probe |-> NoProbe]

\* The supervisor as __init__ leaves it (lines 21-51), in a system that lets
\* it spawn n children; auto is the auto_restart argument, max the value of
\* max_restart_attempts (5 unless the owner of the object assigns it).
Constructed(n, auto, max) ==
  /\ state = STOPPED
  /\ running = FALSE
  /\ process = None
  /\ master_fd = None
  /\ stop_event = FALSE
  /\ process_ready_event = FALSE
  /\ auto_restart = auto
  /\ restart_count = 0
  /\ max_restart_attempts = max
  /\ lock = {}
  /\ detected_ports = {}
  /\ process_info = {}
  /\ last_known_ports = {}
  /\ child = [c \in Children |-> IF c <= n THEN "none" ELSE "never"]
  /\ code = [c \in Children |-> 0]
  /\ fd = [f \in Fds |-> "none"]
  /\ pc = [t \in Threads |-> IF t = Caller THEN "idle" ELSE "unborn"]
  /\ ctx = [t \in Threads |-> IF t = Caller THEN "top" ELSE "monitor"]
  /\ force = [t \in Threads |-> FALSE]
  /\ pend = [t \in Threads |-> STOPPED]
  /\ after = [t \in Threads |-> "idle"]
  /\ loc = [t \in Threads |-> NoLoc]
  /\ last = [op |-> "none", err |-> FALSE, fr |-> FALSE]
  /\ calls = 0
  /\ state_callbacks = <<>>
  /\ snap = [t \in Threads |-> <<>>]
  /\ got = [c \in Cbs |-> "none"]
  /\ buffer = <<>>
  /\ pipe = [c \in Children |-> <<>>]
  /\ tty = [c \in Children |-> None]
  /\ fired = 0
  /\ delivered = <<>>
  /\ fed = <<>>

Init == \E auto \in BOOLEAN : Constructed(MaxSpawn, auto, MaxAttempts)

Goto(t, l) == pc' = [pc EXCEPT ![t] = l]

Spawned == {c \in Children : child[c] \notin {"never", "none"}}
Exited == {c \in Children : child[c] \in {"zombie", "reaped"}}
\* Child c has been spawned and has not exited.
Live(c) == child[c] \in {"alive", "termed"}

SetLoc(t, f, v) == loc' = [loc EXCEPT ![t][f] = v]

\* The smallest identifier not yet handed out, 0 when there is none left.
Fresh(used, all) ==
  IF \A x \in all : used[x] # "none" THEN 0
  ELSE CHOOSE x \in all : used[x] = "none" /\ \A y \in all : y < x => used[y] # "none"

\* ------------------------------------------------------------ _set_state
\* _set_state(new_state), lines 271-286: under the lock the state is written
\* and the callbacks are copied only when the value changes; the callbacks are
\* invoked after the lock is released (Notify), then the caller goes on at nxt.
\* (WithHeld: a _set_state whose loop over the callbacks stands inside the
\* `with` block.)
WithHeld(t) == {t}
\* Line 278 is the last of the `with` block: the lock is released before the
\* loop over the callbacks.
WithExit(t) == {}

\* A `with self._state_lock:` statement is entered when no thread holds the
\* lock (threading.Lock is not reentrant).
Acquires(t) == lock = {}

SetState(t, new, nxt) ==
  /\ Acquires(t)
  /\ state' = new
  /\ IF state # new
     THEN /\ Goto(t, "notify")
          /\ pend' = [pend EXCEPT ![t] = new]
          /\ after' = [after EXCEPT ![t] = nxt]
          /\ snap' = [snap EXCEPT ![t] = state_callbacks]
          /\ lock' = WithExit(t)
     ELSE /\ Goto(t, nxt)
          /\ UNCHANGED <<pend, after, snap, lock>>

\* Lines 283-286 and 254-258: `except Exception: pass`; the loop goes on with
\* the callbacks that remain, whether or not the one just invoked raised.
\* (AbortOnRaise: a loop that a raising callback ends.)
AbortOnRaise(remaining, raised) == IF raised THEN <<>> ELSE remaining
AfterCallback(remaining, raised) == remaining

\* Lines 281-286, one turn of the loop: the next callback of the copy is
\* invoked with new_state; after the last one _set_state returns.  With an
\* empty copy the loop body never runs.  A callback of Reentrant calls
\* get_status() before it returns into the loop.
Notify(t) ==
  /\ pc[t] = "notify"
  /\ IF snap[t] = <<>>
     THEN /\ Goto(t, after[t])
          /\ pend' = [pend EXCEPT ![t] = STOPPED]
          /\ after' = [after EXCEPT ![t] = "idle"]
          /\ UNCHANGED <<snap, got, loc>>
     ELSE LET c == Head(snap[t])
              remaining == AfterCallback(Tail(snap[t]), c \in Raising)
          IN /\ snap' = [snap EXCEPT ![t] = remaining]
             /\ got' = [got EXCEPT ![c] = pend[t]]
             /\ IF c \in Reentrant
                THEN /\ Goto(t, "gs_lock")
                     /\ SetLoc(t, "gsret", "notify")
                     /\ UNCHANGED <<pend, after>>
                ELSE IF remaining = <<>>
                THEN /\ Goto(t, after[t])
                     /\ pend' = [pend EXCEPT ![t] = STOPPED]
                     /\ after' = [after EXCEPT ![t] = "idle"]
                     /\ UNCHANGED loc
                ELSE UNCHANGED <<pc, pend, after, loc>>
  /\ UNCHANGED <<sup, info, os, ctx, force, last, calls, state_callbacks, lin>>

\* add_state_callback(callback), lines 260-263, called by the caller.
AddCallback(c) ==
  /\ pc[Caller] = "idle"
  /\ Acquires(Caller)
  /\ state_callbacks' = Append(state_callbacks, c)
  /\ UNCHANGED <<sup, info, os, thr, last, calls, snap, got, lin>>

\* --------------------------------------------------------------- start()
\* Unchanged supervisor attributes, by the attribute a step writes.
KeepSup(x) ==
  /\ IF "state" \in x THEN TRUE ELSE state' = state
  /\ IF "running" \in x THEN TRUE ELSE running' = running
  /\ IF "process" \in x THEN TRUE ELSE process' = process
  /\ IF "master_fd" \in x THEN TRUE ELSE master_fd' = master_fd
  /\ IF "stop_event" \in x THEN TRUE ELSE stop_event' = stop_event
  /\ IF "process_ready_event" \in x THEN TRUE ELSE process_ready_event' = process_ready_event
  /\ IF "auto_restart" \in x THEN TRUE ELSE auto_restart' = auto_restart
  /\ IF "restart_count" \in x THEN TRUE ELSE restart_count' = restart_count
  /\ IF "lock" \in x THEN TRUE ELSE lock' = lock
  /\ max_restart_attempts' = max_restart_attempts

\* Line 291: the test start() makes under the lock.
\* (StartNeverNoop: start() without the test of line 291.)
StartNeverNoop == FALSE
StartIsNoop == state = RUNNING

\* The caller invokes start().
CallStart ==
  /\ pc[Caller] = "idle"
  /\ calls' = calls + 1
  /\ Goto(Caller, "start_check")
  /\ UNCHANGED <<sup, info, os, ctx, force, pend, after, loc, last, cbv, lin>>

\* Every watchdog has ended (or was never started).
NoWatchdog == \A t \in Monitors : pc[t] \in {"unborn", "done"}

\* Lines 290-292: `if self.state == RUNNING: return`.  (loc.afterstop
\* remembers that the call found the supervisor as a completed stop() leaves
\* it, with no watchdog running.)
Start_Check(t) ==
  /\ pc[t] = "start_check"
  /\ Acquires(t)
  /\ IF StartIsNoop THEN Goto(t, "start_ret") ELSE Goto(t, "start_set_starting")
  /\ SetLoc(t, "afterstop", NoWatchdog /\ stop_event /\ state = STOPPED)
  /\ UNCHANGED <<sup, info, os, ctx, force, pend, after, last, calls, cbv, lin>>

\* Line 294.
Start_SetStarting(t) ==
  /\ pc[t] = "start_set_starting"
  /\ SetState(t, STARTING, "start_clear_stop")
  /\ KeepSup({"state", "lock"})
  /\ UNCHANGED <<info, os, ctx, force, loc, last, calls, state_callbacks, got, lin>>

\* Line 297.
Start_ClearStop(t) ==
  /\ pc[t] = "start_clear_stop"
  /\ stop_event' = FALSE
  /\ Goto(t, "start_clear_ready")
  /\ KeepSup({"stop_event"})
  /\ UNCHANGED <<info, os, ctx, force, pend, after, loc, last, calls, cbv, lin>>

\* Line 300.
Start_ClearReady(t) ==
  /\ pc[t] = "start_clear_ready"
  /\ process_ready_event' = FALSE
  /\ Goto(t, "start_openpty")
  /\ KeepSup({"process_ready_event"})
  /\ UNCHANGED <<info, os, ctx, force, pend, after, loc, last, calls, cbv, lin>>

\* Line 304: pty.openpty() allocates a new master, or raises.
Start_OpenPty(t) ==
  /\ pc[t] = "start_openpty"
  /\ LET f == Fresh(fd, Fds) IN
       \/ /\ f # 0
          /\ fd' = [fd EXCEPT ![f] = "open"]
          /\ master_fd' = f
          /\ Goto(t, "start_popen")
       \/ /\ Goto(t, "start_except")
          /\ UNCHANGED <<fd, master_fd>>
  /\ KeepSup({"master_fd"})
  /\ UNCHANGED <<info, child, code, ctx, force, pend, after, loc, last, calls, cbv, lin>>

\* Lines 307-320: subprocess.Popen spawns the child in a new session, or
\* raises; closing the slave and fcntl on the master touch no attribute.
Start_Popen(t) ==
  /\ pc[t] = "start_popen"
  /\ LET c == Fresh(child, Children) IN
       \/ /\ c # 0
          /\ child' = [child EXCEPT ![c] = "alive"]
          /\ process' = c
          /\ fd' = IF master_fd # None /\ fd[master_fd] = "open"
                   THEN [fd EXCEPT ![master_fd] = "attached"] ELSE fd
          /\ tty' = [tty EXCEPT ![c] = master_fd]
          /\ SetLoc(t, "spawned", c)
          /\ Goto(t, "start_running")
       \/ /\ Goto(t, "start_except")
          /\ UNCHANGED <<child, process, fd, loc, tty>>
  /\ KeepSup({"process"})
  /\ UNCHANGED <<info, code, ctx, force, pend, after, last, calls, cbv,
                 buffer, pipe, delivered, fed, fired>>

\* Line 322.
Start_Running(t) ==
  /\ pc[t] = "start_running"
  /\ running' = TRUE
  /\ Goto(t, "start_threads")
  /\ KeepSup({"running"})
  /\ UNCHANGED <<info, os, ctx, force, pend, after, loc, last, calls, cbv, lin>>

\* Lines 325-332: the reader thread and the watchdog thread are started; the
\* watchdog of the child this call spawned begins at the head of its loop.
Start_Threads(t) ==
  /\ pc[t] = "start_threads"
  /\ pc' = [pc EXCEPT ![t] = "start_set_running",
                      ![ReaderOf(loc[t].spawned)] = "rd_loop",
                      ![loc[t].spawned] = "mon_loop"]
  /\ UNCHANGED <<sup, info, os, ctx, force, pend, after, loc, last, calls, cbv, lin>>

\* Line 334.
Start_SetRunning(t) ==
  /\ pc[t] = "start_set_running"
  /\ SetState(t, RUNNING, "start_ret")
  /\ KeepSup({"state", "lock"})
  /\ UNCHANGED <<info, os, ctx, force, loc, last, calls, state_callbacks, got, lin>>

\* Lines 335-337: `except Exception: self._set_state(CRASHED); raise`.
Start_Except(t) ==
  /\ pc[t] = "start_except"
  /\ SetState(t, CRASHED, "start_raise")
  /\ KeepSup({"state", "lock"})
  /\ UNCHANGED <<info, os, ctx, force, loc, last, calls, state_callbacks, got, lin>>

\* start() returns normally: to the caller of the method, to restart(), or
\* into the watchdog, whose loop then breaks (line 422).
Start_Ret(t) ==
  /\ pc[t] = "start_ret"
  /\ IF ctx[t] = "monitor"
     THEN Goto(t, "done") /\ UNCHANGED last
     ELSE /\ Goto(t, "idle")
          /\ last' = [op |-> IF ctx[t] = "restart" THEN "restart" ELSE "start",
                      err |-> FALSE, fr |-> FALSE]
  /\ loc' = [loc EXCEPT ![t] = NoLoc]
  /\ ctx' = [ctx EXCEPT ![t] = IF t = Caller THEN "top" ELSE "monitor"]
  /\ force' = [force EXCEPT ![t] = FALSE]
  /\ UNCHANGED <<sup, info, os, pend, after, calls, cbv, lin>>

\* start() raises: the error reaches the caller (through restart(), which
\* does not catch it), or the watchdog's handler at lines 415-417.
Start_Raise(t) ==
  /\ pc[t] = "start_raise"
  /\ IF ctx[t] = "monitor"
     THEN Goto(t, "mon_start_failed") /\ UNCHANGED last
     ELSE /\ Goto(t, "idle")
          /\ last' = [op |-> IF ctx[t] = "restart" THEN "restart" ELSE "start",
                      err |-> TRUE, fr |-> FALSE]
  /\ loc' = [loc EXCEPT ![t] = NoLoc]
  /\ ctx' = [ctx EXCEPT ![t] = IF t = Caller THEN "top" ELSE "monitor"]
  /\ force' = [force EXCEPT ![t] = FALSE]
  /\ UNCHANGED <<sup, info, os, pend, after, calls, cbv, lin>>

StartStep(t) ==
  \/ Start_Check(t) \/ Start_SetStarting(t) \/ Start_ClearStop(t)
  \/ Start_ClearReady(t) \/ Start_OpenPty(t) \/ Start_Popen(t)
  \/ Start_Running(t) \/ Start_Threads(t) \/ Start_SetRunning(t)
  \/ Start_Except(t) \/ Start_Ret(t) \/ Start_Raise(t)

\* ------------------------------------------------------ _monitor_process
\* Line 390: the watchdog infers the state itself unless a manual stop runs.
MonitorInfers(t) ==
  ~loc[t].is_manual_stop /\ loc[t].current_state # STOPPING

\* Lines 391-394.
ExitState(exit_code) == IF exit_code = 0 THEN STOPPED ELSE CRASHED

\* Lines 398-404, evaluated under the lock.
ShouldRestart(t) ==
  /\ auto_restart
  /\ ~loc[t].is_manual_stop
  /\ state \notin {STOPPING, STOPPED}
  /\ restart_count < max_restart_attempts

\* Line 418.
BudgetExhausted == restart_count >= max_restart_attempts

\* Line 376: `while self.running and self.process`.
Mon_Loop(t) ==
  /\ pc[t] = "mon_loop"
  /\ IF running /\ process # None THEN Goto(t, "mon_poll") ELSE Goto(t, "done")
  /\ UNCHANGED <<sup, info, os, ctx, force, pend, after, loc, last, calls, cbv, lin>>

\* Lines 379-380 and 424: self.process.poll().  The attribute is read again,
\* so the watchdog polls whatever child the supervisor holds now; None raises
\* AttributeError, which line 425 turns into a break.  poll() reaps a child
\* that has exited.  A live child sends the loop to sleep for 100 ms.
Mon_Poll(t) ==
  /\ pc[t] = "mon_poll"
  /\ IF process = None
     THEN Goto(t, "done") /\ UNCHANGED <<child, loc>>
     ELSE IF Live(process)
     THEN Goto(t, "mon_loop") /\ UNCHANGED <<child, loc>>
     ELSE /\ child' = [child EXCEPT ![process] = "reaped"]
          /\ SetLoc(t, "exit_code", code[process])
          /\ Goto(t, "mon_exit")
  /\ UNCHANGED <<sup, info, code, fd, ctx, force, pend, after, last, calls, cbv, lin>>

\* Line 382.
Mon_Exit(t) ==
  /\ pc[t] = "mon_exit"
  /\ running' = FALSE
  /\ Goto(t, "mon_lock1")
  /\ KeepSup({"running"})
  /\ UNCHANGED <<info, os, ctx, force, pend, after, loc, last, calls, cbv, lin>>

\* Lines 385-387.
Mon_Lock1(t) ==
  /\ pc[t] = "mon_lock1"
  /\ Acquires(t)
  /\ loc' = [loc EXCEPT ![t].is_manual_stop = stop_event,
                        ![t].current_state = state]
  /\ Goto(t, "mon_infer")
  /\ UNCHANGED <<sup, info, os, ctx, force, pend, after, last, calls, cbv, lin>>

\* Lines 390-394.
Mon_Infer(t) ==
  /\ pc[t] = "mon_infer"
  /\ IF MonitorInfers(t)
     THEN SetState(t, ExitState(loc[t].exit_code), "mon_lock2")
     ELSE Goto(t, "mon_lock2") /\ UNCHANGED <<state, pend, after, snap, lock>>
  /\ SetLoc(t, "current_state", STOPPED)
  /\ KeepSup({"state", "lock"})
  /\ UNCHANGED <<info, os, ctx, force, last, calls, state_callbacks, got, lin>>

\* Lines 397-406 and 418: should_restart is computed under the lock and
\* decides the branch.
Mon_Lock2(t) ==
  /\ pc[t] = "mon_lock2"
  /\ Acquires(t)
  /\ IF ShouldRestart(t) THEN Goto(t, "mon_inc_read") ELSE Goto(t, "mon_elif")
  /\ UNCHANGED <<sup, info, os, ctx, force, pend, after, loc, last, calls, cbv, lin>>

\* Line 407, `self.restart_count += 1`, outside the lock: the load ...
Mon_IncRead(t) ==
  /\ pc[t] = "mon_inc_read"
  /\ SetLoc(t, "tmp", restart_count)
  /\ Goto(t, "mon_inc_write")
  /\ UNCHANGED <<sup, info, os, ctx, force, pend, after, last, calls, cbv, lin>>

\* ... and the store.
Mon_IncWrite(t) ==
  /\ pc[t] = "mon_inc_write"
  /\ restart_count' = loc[t].tmp + 1
  /\ SetLoc(t, "tmp", 0)
  /\ Goto(t, "mon_set_restarting")
  /\ KeepSup({"restart_count"})
  /\ UNCHANGED <<info, os, ctx, force, pend, after, last, calls, cbv, lin>>

\* Line 408.
Mon_SetRestarting(t) ==
  /\ pc[t] = "mon_set_restarting"
  /\ SetState(t, RESTARTING, "mon_reset")
  /\ KeepSup({"state", "lock"})
  /\ UNCHANGED <<info, os, ctx, force, loc, last, calls, state_callbacks, got, lin>>

\* Lines 409-414: after time.sleep(restart_delay) the state is written under
\* the lock, without _set_state, and the watchdog calls start().
Mon_Reset(t) ==
  /\ pc[t] = "mon_reset"
  /\ Acquires(t)
  /\ state' = STOPPED
  /\ Goto(t, "start_check")
  /\ KeepSup({"state"})
  /\ UNCHANGED <<info, os, ctx, force, pend, after, loc, last, calls, cbv, lin>>

\* Lines 418-422: the last statement of the watchdog.
Mon_Elif(t) ==
  /\ pc[t] = "mon_elif"
  /\ IF BudgetExhausted
     THEN SetState(t, CRASHED, "done")
     ELSE Goto(t, "done") /\ UNCHANGED <<state, pend, after, snap, lock>>
  /\ loc' = [loc EXCEPT ![t] = NoLoc]
  /\ KeepSup({"state", "lock"})
  /\ UNCHANGED <<info, os, ctx, force, last, calls, state_callbacks, got, lin>>

\* Lines 415-417: start() raised inside the watchdog.
Mon_StartFailed(t) ==
  /\ pc[t] = "mon_start_failed"
  /\ SetState(t, CRASHED, "done")
  /\ KeepSup({"state", "lock"})
  /\ UNCHANGED <<info, os, ctx, force, loc, last, calls, state_callbacks, got, lin>>

MonitorStep(t) ==
  \/ Mon_Loop(t) \/ Mon_Poll(t) \/ Mon_Exit(t) \/ Mon_Lock1(t) \/ Mon_Infer(t)
  \/ Mon_Lock2(t) \/ Mon_IncRead(t) \/ Mon_IncWrite(t) \/ Mon_SetRestarting(t)
  \/ Mon_Reset(t) \/ Mon_Elif(t) \/ Mon_StartFailed(t)

\* The child ends on its own (or is killed from outside) with status x.
ChildExit(c, x) ==
  /\ Live(c)
  /\ child' = [child EXCEPT ![c] = "zombie"]
  /\ code' = [code EXCEPT ![c] = x]
  /\ UNCHANGED <<sup, info, fd, thr, last, calls, cbv, lin>>

\* ---------------------------------------------------------------- stop()
\* Line 436: the test stop() makes under the lock.
StopIsNoop == state = STOPPED

\* Line 448.
\* (StopSignalTerm: a stop() that ignores force when it picks the signal.)
StopSignalTerm(f) == "SIGTERM"
StopSignal(f) == IF f THEN "SIGKILL" ELSE "SIGTERM"

\* os.killpg on the group of child c: SIGKILL ends a live child at once (its
\* status is that of a signal death, nonzero); SIGTERM is left to the child,
\* which answers it through ChildExit or not at all.
Killed(c, sig) ==
  IF sig = "SIGKILL" /\ Live(c)
  THEN /\ child' = [child EXCEPT ![c] = "zombie"]
       /\ code' = [code EXCEPT ![c] = 1]
  ELSE IF sig = "SIGTERM" /\ Live(c)
  THEN child' = [child EXCEPT ![c] = "termed"] /\ UNCHANGED code
  ELSE UNCHANGED <<child, code>>

\* The caller invokes stop(force).
CallStop(f) ==
  /\ pc[Caller] = "idle"
  /\ calls' = calls + 1
  /\ Goto(Caller, "stop_check")
  /\ force' = [force EXCEPT ![Caller] = f]
  /\ UNCHANGED <<sup, info, os, ctx, pend, after, loc, last, cbv, lin>>

\* Lines 435-440: under the lock, return if already stopped, else set the
\* manual-stop event.  (loc.lkp remembers the last_known_ports the call
\* found, loc.fr whether it found the state Running.)
Stop_Check(t) ==
  /\ pc[t] = "stop_check"
  /\ Acquires(t)
  /\ IF StopIsNoop
     THEN Goto(t, "stop_noop") /\ UNCHANGED stop_event
     ELSE Goto(t, "stop_set_stopping") /\ stop_event' = TRUE
  /\ loc' = [loc EXCEPT ![t].lkp = last_known_ports, ![t].fr = (state = RUNNING)]
  /\ KeepSup({"stop_event"})
  /\ UNCHANGED <<info, os, ctx, force, pend, after, last, calls, cbv, lin>>

\* Line 442.
Stop_SetStopping(t) ==
  /\ pc[t] = "stop_set_stopping"
  /\ SetState(t, STOPPING, "stop_running")
  /\ KeepSup({"state", "lock"})
  /\ UNCHANGED <<info, os, ctx, force, loc, last, calls, state_callbacks, got, lin>>

\* Line 443.
Stop_Running(t) ==
  /\ pc[t] = "stop_running"
  /\ running' = FALSE
  /\ Goto(t, "stop_kill")
  /\ KeepSup({"running"})
  /\ UNCHANGED <<info, os, ctx, force, pend, after, loc, last, calls, cbv, lin>>

\* Lines 445-449: with a child handle, signal its process group.  os.getpgid
\* raises ProcessLookupError for a child that has been reaped.  (loc.sig
\* remembers that the signal went to a child still alive, loc.sigs the
\* signals the call has sent so far, loc.gone that the lookup failed.)
Stop_Kill(t) ==
  /\ pc[t] = "stop_kill"
  /\ IF process = None
     THEN /\ Goto(t, "stop_close")
          /\ UNCHANGED <<child, code, loc>>
     ELSE IF child[process] = "reaped"
     THEN /\ Goto(t, "stop_except")
          /\ SetLoc(t, "gone", TRUE)
          /\ UNCHANGED <<child, code>>
     ELSE /\ Killed(process, StopSignal(force[t]))
          /\ loc' = [loc EXCEPT ![t].sig = Live(process),
                                ![t].sigs = Append(@, StopSignal(force[t]))]
          /\ Goto(t, "stop_wait")
  /\ UNCHANGED <<sup, info, fd, ctx, force, pend, after, last, calls, cbv, lin>>

\* Lines 452-454: self.process.wait(timeout) reaps a child that has exited;
\* a child still alive when the timeout expires raises TimeoutExpired.
Stop_Wait(t) ==
  /\ pc[t] = "stop_wait"
  /\ IF Live(process)
     THEN Goto(t, "stop_except") /\ UNCHANGED child
     ELSE /\ child' = [child EXCEPT ![process] = "reaped"]
          /\ Goto(t, "stop_close")
  /\ UNCHANGED <<sup, info, code, fd, ctx, force, pend, after, loc, last, calls, cbv, lin>>

\* Lines 454-460: the handler of TimeoutExpired and ProcessLookupError.
Stop_Except(t) ==
  /\ pc[t] = "stop_except"
  /\ IF force[t] \/ child[process] = "reaped"
     THEN UNCHANGED <<child, code, loc>>
     ELSE /\ Killed(process, "SIGKILL")
          /\ SetLoc(t, "sigs", Append(loc[t].sigs, "SIGKILL"))
  /\ Goto(t, "stop_close")
  /\ UNCHANGED <<sup, info, fd, ctx, force, pend, after, last, calls, cbv, lin>>

\* Lines 463-468: os.close(self.master_fd) when the master is not None.  The
\* call closes the descriptor, or raises OSError (the system releases the
\* descriptor all the same); the handler passes and `finally` follows.
\* (loc.closes counts the calls of os.close, loc.oserr remembers an OSError.)
Stop_Close(t) ==
  /\ pc[t] = "stop_close"
  /\ \/ /\ master_fd = None
        /\ Goto(t, "stop_proc_none")
        /\ UNCHANGED <<fd, loc>>
     \/ /\ master_fd # None
        /\ fd' = [fd EXCEPT ![master_fd] = "none"]
        /\ SetLoc(t, "closes", loc[t].closes + 1)
        /\ Goto(t, "stop_fd_none")
     \/ /\ master_fd # None
        /\ fd' = [fd EXCEPT ![master_fd] = "none"]
        /\ loc' = [loc EXCEPT ![t].closes = @ + 1, ![t].oserr = TRUE]
        /\ Goto(t, "stop_fd_none")
  /\ UNCHANGED <<sup, info, child, code, ctx, force, pend, after, last, calls, cbv, lin>>

\* Lines 466-470: an OSError has been handled by now; `finally` drops the
\* master.
Stop_FdNone(t) ==
  /\ pc[t] = "stop_fd_none"
  /\ master_fd' = None
  /\ SetLoc(t, "oserr", FALSE)
  /\ Goto(t, "stop_proc_none")
  /\ KeepSup({"master_fd"})
  /\ UNCHANGED <<info, os, ctx, force, pend, after, last, calls, cbv, lin>>

\* Lines 473-480: the joins have a timeout of one second and go on whether
\* or not the thread has ended, so they change nothing; then the handle is
\* dropped.
Stop_ProcNone(t) ==
  /\ pc[t] = "stop_proc_none"
  /\ process' = None
  /\ Goto(t, "stop_clear_info")
  /\ KeepSup({"process"})
  /\ UNCHANGED <<info, os, ctx, force, pend, after, loc, last, calls, cbv, lin>>

\* Line 483.
Stop_ClearInfo(t) ==
  /\ pc[t] = "stop_clear_info"
  /\ process_info' = {}
  /\ Goto(t, "stop_clear_ports")
  /\ UNCHANGED <<sup, detected_ports, last_known_ports, os, ctx, force, pend, after, loc, last, calls, cbv, lin>>

\* Line 484.
Stop_ClearPorts(t) ==
  /\ pc[t] = "stop_clear_ports"
  /\ detected_ports' = {}
  /\ Goto(t, "stop_clear_ready")
  /\ UNCHANGED <<sup, process_info, last_known_ports, os, ctx, force, pend, after, loc, last, calls, cbv, lin>>

\* Line 486.
Stop_ClearReady(t) ==
  /\ pc[t] = "stop_clear_ready"
  /\ process_ready_event' = FALSE
  /\ Goto(t, "stop_set_stopped")
  /\ KeepSup({"process_ready_event"})
  /\ UNCHANGED <<info, os, ctx, force, pend, after, loc, last, calls, cbv, lin>>

\* Line 489.
Stop_SetStopped(t) ==
  /\ pc[t] = "stop_set_stopped"
  /\ SetState(t, STOPPED, "stop_ret")
  /\ KeepSup({"state", "lock"})
  /\ UNCHANGED <<info, os, ctx, force, loc, last, calls, state_callbacks, got, lin>>

\* stop() returns, to the caller or into restart() (line 517): at stop_noop
\* from line 437, at stop_ret from the end of the method.
Stop_Ret(t) ==
  /\ pc[t] \in {"stop_ret", "stop_noop"}
  /\ IF ctx[t] = "restart"
     THEN Goto(t, "restart_restore") /\ UNCHANGED last
     ELSE /\ Goto(t, "idle")
          /\ last' = [op |-> IF ctx[t] = "shutdown" THEN "shutdown" ELSE "stop",
                      err |-> FALSE, fr |-> loc[t].fr]
  /\ ctx' = [ctx EXCEPT ![t] = IF @ = "shutdown" THEN "top" ELSE @]
  /\ loc' = [loc EXCEPT ![t] = [NoLoc EXCEPT !.preserved = loc[t].preserved]]
  /\ force' = [force EXCEPT ![t] = FALSE]
  /\ UNCHANGED <<sup, info, os, pend, after, calls, cbv, lin>>

\* Lines 491-499: graceful_shutdown() (f false) and force_quit() (f true)
\* turn auto_restart off and call stop(force=f).
Shutdown(f) ==
  /\ pc[Caller] = "idle"
  /\ calls' = calls + 1
  /\ auto_restart' = FALSE
  /\ force' = [force EXCEPT ![Caller] = f]
  /\ ctx' = [ctx EXCEPT ![Caller] = "shutdown"]
  /\ Goto(Caller, "stop_check")
  /\ KeepSup({"auto_restart"})
  /\ UNCHANGED <<info, os, pend, after, loc, last, cbv, lin>>

graceful_shutdown == Shutdown(FALSE)
force_quit == Shutdown(TRUE)

\* A toggle that always turns the flag on.
AlwaysOn(flag) == TRUE

\* Line 536: `not self.auto_restart`.
Negated(flag) == ~flag

\* Lines 534-537: toggle_auto_restart() stores the negated flag and returns
\* what it stored (loc.before keeps the flag the call found, loc.toggled the
\* value it returned).
toggle_auto_restart ==
  /\ pc[Caller] = "idle"
  /\ calls' = calls + 1
  /\ auto_restart' = Negated(auto_restart)
  /\ loc' = [loc EXCEPT ![Caller].before = auto_restart,
                        ![Caller].toggled = auto_restart']
  /\ last' = [op |-> "toggle", err |-> FALSE, fr |-> FALSE]
  /\ KeepSup({"auto_restart"})
  /\ UNCHANGED <<info, os, pc, ctx, force, pend, after, cbv, lin>>

StopStep(t) ==
  \/ Stop_Check(t) \/ Stop_SetStopping(t) \/ Stop_Running(t) \/ Stop_Kill(t)
  \/ Stop_Wait(t) \/ Stop_Except(t) \/ Stop_Close(t) \/ Stop_FdNone(t)
  \/ Stop_ProcNone(t) \/ Stop_ClearInfo(t) \/ Stop_ClearPorts(t)
  \/ Stop_ClearReady(t) \/ Stop_SetStopped(t) \/ Stop_Ret(t)

\* ------------------------------------------------------------- restart()
\* The caller invokes restart(force).
CallRestart(f) ==
  /\ pc[Caller] = "idle"
  /\ calls' = calls + 1
  /\ Goto(Caller, "restart_check")
  /\ ctx' = [ctx EXCEPT ![Caller] = "restart"]
  /\ force' = [force EXCEPT ![Caller] = f]
  /\ UNCHANGED <<sup, info, os, pend, after, loc, last, cbv, lin>>

\* Lines 507-515: the locked block does nothing; the state is then read
\* without the lock, and a running session has its ports kept and is stopped.
Restart_Check(t) ==
  /\ pc[t] = "restart_check"
  /\ Acquires(t)
  /\ IF state = RUNNING
     THEN /\ SetLoc(t, "preserved", detected_ports)
          /\ Goto(t, "stop_check")
     ELSE /\ Goto(t, "restart_reset")
          /\ UNCHANGED loc
  /\ UNCHANGED <<sup, info, os, ctx, force, pend, after, last, calls, cbv, lin>>

\* Lines 517-525: last_known_ports is restored; the loop that follows waits
\* for Stopped or Crashed for at most 50 polls and changes nothing.
Restart_Restore(t) ==
  /\ pc[t] = "restart_restore"
  /\ last_known_ports' = loc[t].preserved
  /\ Goto(t, "restart_reset")
  /\ UNCHANGED <<sup, detected_ports, process_info, os, ctx, force, pend, after, loc, last, calls, cbv, lin>>

\* Lines 528-532: under the lock the counter and the state are written,
\* without _set_state; then start() is called.
Restart_Reset(t) ==
  /\ pc[t] = "restart_reset"
  /\ Acquires(t)
  /\ restart_count' = 0
  /\ state' = STOPPED
  /\ Goto(t, "start_check")
  /\ KeepSup({"restart_count", "state"})
  /\ UNCHANGED <<info, os, ctx, force, pend, after, loc, last, calls, cbv, lin>>

RestartStep(t) == Restart_Check(t) \/ Restart_Restore(t) \/ Restart_Reset(t)

\* ------------------------------------------- the reader and the refresh task
\* _read_output / _process_output (lines 339-372) and
\* _check_process_ready_indicators (lines 211-244): while running, the
\* reader of the open PTY master takes a line that matches a ready pattern:
\* the readiness event is set, the refresh thread is started and
\* _notify_status_change (lines 246-258) copies the callbacks under the lock.
\* The reader exists once a start() has passed lines 325-332, where it and
\* the watchdog are launched.
Reader_Ready ==
  /\ running
  /\ master_fd # None /\ fd[master_fd] # "none"
  /\ \E c \in Monitors : pc[c] # "unborn"
  /\ ~process_ready_event
  /\ pc[Refresher] = "unborn"
  /\ Acquires(Reader)
  /\ process_ready_event' = TRUE
  /\ snap' = [snap EXCEPT ![Reader] = state_callbacks]
  /\ pc' = [pc EXCEPT ![Refresher] = "ref_check",
                      ![Reader] = IF state_callbacks = <<>> THEN pc[Reader]
                                  ELSE "nsc_call"]
  /\ KeepSup({"process_ready_event"})
  /\ UNCHANGED <<info, os, ctx, force, pend, after, loc, last, calls, state_callbacks, got, lin>>

\* Where a thread goes on after _notify_status_change (line 243): the reader
\* taken as a whole has nothing left to do, a thread in _process_output goes
\* on to line 372.
NscReturn(t) == IF t = Reader THEN "done" ELSE "po_output"

\* Lines 253-258, one turn of the loop of _notify_status_change: the next
\* callback is invoked with the state as it is now; an exception is passed.
Nsc_Call(t) ==
  /\ pc[t] = "nsc_call"
  /\ IF snap[t] = <<>>
     THEN Goto(t, NscReturn(t)) /\ UNCHANGED <<snap, got, loc>>
     ELSE LET c == Head(snap[t])
              remaining == AfterCallback(Tail(snap[t]), c \in Raising)
          IN /\ snap' = [snap EXCEPT ![t] = remaining]
             /\ got' = [got EXCEPT ![c] = state]
             /\ IF c \in Reentrant
                THEN Goto(t, "gs_lock") /\ SetLoc(t, "gsret", "nsc_call")
                ELSE IF remaining = <<>>
                THEN Goto(t, NscReturn(t)) /\ UNCHANGED loc
                ELSE UNCHANGED <<pc, loc>>
  /\ UNCHANGED <<sup, info, os, ctx, force, pend, after, last, calls, state_callbacks, lin>>

\* ------------------------------------------------------------------ output
\* Text is a sequence of characters.  "\n" ends a line.  The twelve ready
\* patterns of lines 219-232 are represented by one, the text "ok"; "O" and
\* "K" are its letters in upper case, "e" stands for one ANSI escape
\* sequence; every other character is lower-case text no pattern matches.
Nl == "\n"
ReadyPattern == <<"o", "k">>

\* utils.py, lines 9-11: the text without its escape sequences.
strip_ansi_codes(text) == SelectSeq(text, LAMBDA ch : ch # "e")

\* str.lower() (line 216).
Lower(text) ==
  [i \in 1..Len(text) |-> CASE text[i] = "O" -> "o"
                            [] text[i] = "K" -> "k"
                            [] OTHER -> text[i]]

\* re.search(pattern, clean_line), lines 216 and 234-235.
ReadyLine(line) ==
  LET clean_line == Lower(strip_ansi_codes(line))
      n == Len(ReadyPattern)
  IN \E i \in 1..(Len(clean_line) - n + 1) :
        SubSeq(clean_line, i, i + n - 1) = ReadyPattern

\* A split that forgets empty pieces, as str.split() without a separator does.
RECURSIVE SplitDropsEmpty(_)
SplitDropsEmpty(text) ==
  IF \A i \in 1..Len(text) : text[i] # Nl THEN <<text>>
  ELSE LET k == CHOOSE i \in 1..Len(text) :
                  text[i] = Nl /\ \A j \in 1..(i - 1) : text[j] # Nl
           rest == SplitDropsEmpty(SubSeq(text, k + 1, Len(text)))
       IN IF k = 1 THEN rest ELSE <<SubSeq(text, 1, k - 1)>> \o rest

\* A split that leaves the newline of every line but the first in the piece
\* that follows it.
RECURSIVE SplitKeepsNewline(_)
SplitKeepsNewline(text) ==
  IF \A i \in 2..Len(text) : text[i] # Nl THEN <<text>>
  ELSE LET k == CHOOSE i \in 2..Len(text) :
                  text[i] = Nl /\ \A j \in 2..(i - 1) : text[j] # Nl
       IN <<SubSeq(text, 1, k - 1)>> \o SplitKeepsNewline(SubSeq(text, k, Len(text)))

\* str.split("\n") (line 363): the pieces between the newlines, one more
\* than there are newlines.
RECURSIVE Split(_)
Split(text) ==
  IF \A i \in 1..Len(text) : text[i] # Nl THEN <<text>>
  ELSE LET k == CHOOSE i \in 1..Len(text) :
                  text[i] = Nl /\ \A j \in 1..(i - 1) : text[j] # Nl
       IN <<SubSeq(text, 1, k - 1)>> \o Split(SubSeq(text, k + 1, Len(text)))

\* Where a thread goes on after _process_output: the caller that called it
\* directly is done, a reader thread is at the head of its loop (line 341).
PoReturn(t) == IF t = Caller THEN "idle" ELSE "rd_loop"

\* The owner of the supervisor calls _process_output(text), as the tests do.
CallProcessOutput(text) ==
  /\ pc[Caller] = "idle"
  /\ calls' = calls + 1
  /\ SetLoc(Caller, "text", text)
  /\ Goto(Caller, "po_append")
  /\ UNCHANGED <<sup, info, os, ctx, force, pend, after, last, cbv, lin>>

\* Line 360.
Po_Append(t) ==
  /\ pc[t] = "po_append"
  /\ buffer' = buffer \o loc[t].text
  /\ fed' = fed \o loc[t].text
  /\ Goto(t, "po_split")
  /\ UNCHANGED <<sup, info, os, ctx, force, pend, after, loc, last, calls, cbv,
                 pipe, delivered, tty, fired>>

\* Lines 363-369: the buffer is split, its last piece kept, and the loop over
\* the complete lines entered.
Po_Split(t) ==
  /\ pc[t] = "po_split"
  /\ LET lines == Split(buffer)
     IN /\ buffer' = lines[Len(lines)]
        /\ loc' = [loc EXCEPT ![t].text = <<>>,
                              ![t].lines = SubSeq(lines, 1, Len(lines) - 1)]
        /\ Goto(t, IF Len(lines) = 1 THEN PoReturn(t) ELSE "po_check")
  /\ UNCHANGED <<sup, info, os, ctx, force, pend, after, last, calls, cbv,
                 pipe, delivered, fed, tty, fired>>

\* Lines 213-235: _check_process_ready_indicators returns when the flag is
\* set or no pattern matches the line.
Po_Check(t) ==
  /\ pc[t] = "po_check"
  /\ Goto(t, IF ~process_ready_event /\ ReadyLine(Head(loc[t].lines))
             THEN "po_set" ELSE "po_output")
  /\ UNCHANGED <<sup, info, os, ctx, force, pend, after, loc, last, calls, cbv, lin>>

\* A _check_process_ready_indicators that returns once the thread is started.
NotifySkipped == "po_output"
\* Line 243 follows the start of the thread: _notify_status_change() is
\* called before _check_process_ready_indicators returns to line 372.
AfterReady == "po_notify"

\* Lines 237-241: the flag is set and the refresh thread started.
Po_Set(t) ==
  /\ pc[t] = "po_set"
  /\ process_ready_event' = TRUE
  /\ fired' = fired + 1
  /\ pc' = [pc EXCEPT ![t] = AfterReady,
                      ![Refresher] = IF @ \in {"unborn", "done"} THEN "ref_check" ELSE @]
  /\ KeepSup({"process_ready_event"})
  /\ UNCHANGED <<info, os, ctx, force, pend, after, loc, last, calls, cbv,
                 buffer, pipe, delivered, fed, tty>>

\* Lines 248-250: _notify_status_change copies the callbacks under the lock.
Po_Notify(t) ==
  /\ pc[t] = "po_notify"
  /\ Acquires(t)
  /\ snap' = [snap EXCEPT ![t] = state_callbacks]
  /\ Goto(t, "nsc_call")
  /\ UNCHANGED <<sup, info, os, ctx, force, pend, after, loc, last, calls,
                 state_callbacks, got, lin>>

\* Line 372: the line goes to on_output with its newline; then the next
\* line, or the end of _process_output.
Po_Output(t) ==
  /\ pc[t] = "po_output"
  /\ delivered' = Append(delivered, Append(Head(loc[t].lines), Nl))
  /\ SetLoc(t, "lines", Tail(loc[t].lines))
  /\ Goto(t, IF Len(loc[t].lines) = 1 THEN PoReturn(t) ELSE "po_check")
  /\ UNCHANGED <<sup, info, os, ctx, force, pend, after, last, calls, cbv,
                 buffer, pipe, fed, tty, fired>>

ProcessOutputStep(t) ==
  \/ Po_Append(t) \/ Po_Split(t) \/ Po_Check(t) \/ Po_Set(t) \/ Po_Notify(t)
  \/ Nsc_Call(t) \/ Po_Output(t)

\* ------------------------------------------------------- the reader thread
\* The child whose writes arrive at master f: the last one spawned on the
\* slave of the PTY opened as f, None when there is none.
Writer(f) ==
  LET cs == {c \in Children : tty[c] = f}
  IN IF fd[f] = "attached" /\ cs # {}
     THEN CHOOSE c \in cs : \A d \in cs : d <= c
     ELSE None

\* Lines 341-356, one turn of the loop of _read_output: the loop ends when
\* running is false; select and os.read are applied to whatever master_fd
\* is now: they raise when it is None or closed (the thread ends), hand over
\* what the child has written and was not read yet (less than the 4096 bytes
\* one read takes; it goes to _process_output), or report the end of the
\* file when the child is gone; a select that times out changes nothing.
Rd_Loop(r) ==
  /\ pc[r] = "rd_loop"
  /\ IF ~running \/ master_fd = None
     THEN Goto(r, "done") /\ UNCHANGED <<loc, pipe>>
     ELSE IF fd[master_fd] = "none"
     THEN Goto(r, "done") /\ UNCHANGED <<loc, pipe>>
     ELSE LET w == Writer(master_fd)
          IN /\ w # None
             /\ \/ /\ pipe[w] # <<>>
                   /\ SetLoc(r, "text", pipe[w])
                   /\ pipe' = [pipe EXCEPT ![w] = <<>>]
                   /\ Goto(r, "po_append")
                \/ /\ pipe[w] = <<>> /\ ~Live(w)
                   /\ Goto(r, "done")
                   /\ UNCHANGED <<loc, pipe>>
  /\ UNCHANGED <<sup, info, os, ctx, force, pend, after, last, calls, cbv,
                 buffer, delivered, fed, tty, fired>>

ReaderStep(r) == Rd_Loop(r) \/ ProcessOutputStep(r)

\* The ordinary text child c writes: each child has a letter of its own.
Letter(c) == <<"a", "b", "c">>[c]

\* What a child writes at a time: a letter or a ready line.
Writes(c) == { <<Letter(c)>>, <<"o", "k", Nl>> }

\* The amount of text written so far: what was appended to the buffer, what
\* readers hold and what is still in the PTYs.
RECURSIVE SumLen(_, _)
SumLen(f, dom) ==
  IF dom = {} THEN 0
  ELSE LET x == CHOOSE y \in dom : TRUE IN Len(f[x]) + SumLen(f, dom \ {x})

Written ==
  Len(fed) + SumLen(pipe, Children) + SumLen([r \in Readers |-> loc[r].text], Readers)

\* A living child writes text to its terminal (as long as no more than max
\* characters are written in all).
ChildWrite(c, text, max) ==
  /\ Live(c)
  /\ Written + Len(text) <= max
  /\ pipe' = [pipe EXCEPT ![c] = @ \o text]
  /\ UNCHANGED <<sup, info, os, thr, last, calls, cbv, buffer, delivered, fed, tty, fired>>

\* ------------------------------------------------------------ get_status()
\* The answers the three methods can give for a child: ports only while it
\* lives.
Outcomes(live, unusable) ==
  {Outcome("ok", ports) : ports \in (IF live THEN SUBSET Ports ELSE {{}})}
    \cup {Outcome(unusable, {}), Outcome("raises", {})}
Probes(live) ==
  [psutil : Outcomes(live, "missing"), netstat : Outcomes(live, "fails"),
   lsof : Outcomes(live, "fails")]

\* Lines 62-135: psutil is asked first and its answer taken, ports or none;
\* netstat is run only when the import of psutil fails (line 77), lsof only
\* when netstat is missing or times out (lines 100-104); without lsof either
\* no port is found (line 135).  Any other error leaves the `try` of line 62.
Scan(probe) ==
  IF probe.psutil.how # "missing" THEN probe.psutil
  ELSE IF probe.netstat.how # "fails" THEN probe.netstat
  ELSE IF probe.lsof.how # "fails" THEN probe.lsof
  ELSE Outcome("ok", {})

\* _detect_ports_from_process (lines 57-148) as one step of a thread that
\* holds the lock: a scan that finds ports records them in detected_ports and
\* last_known_ports; one that finds none shows the ports kept from before;
\* one that raises clears detected_ports.
DetectPorts ==
  \E probe \in Probes(Live(process)) :
    LET found == Scan(probe)
    IN IF found.how = "raises"
       THEN detected_ports' = {} /\ UNCHANGED last_known_ports
       ELSE IF found.ports # {}
       THEN detected_ports' = found.ports /\ last_known_ports' = found.ports
       ELSE /\ detected_ports' = IF detected_ports = {} /\ last_known_ports # {}
                                 THEN last_known_ports ELSE detected_ports
            /\ UNCHANGED last_known_ports

\* The elements of the set s in decreasing order, one of the orders list(s)
\* can have.
RECURSIVE Descending(_)
Descending(s) ==
  IF s = {} THEN <<>>
  ELSE LET m == CHOOSE x \in s : \A y \in s : y <= x
       IN <<m>> \o Descending(s \ {m})

\* Line 566: sorted(list(s)), the elements of the set s in increasing order.
RECURSIVE SortedList(_)
SortedList(s) ==
  IF s = {} THEN <<>>
  ELSE LET m == CHOOSE x \in s : \A y \in s : x <= y
       IN <<m>> \o SortedList(s \ {m})

\* The owner of the supervisor calls get_status().
CallGetStatus ==
  /\ pc[Caller] = "idle"
  /\ calls' = calls + 1
  /\ Goto(Caller, "gs_lock")
  /\ UNCHANGED <<sup, info, os, ctx, force, pend, after, loc, last, cbv, lin>>

\* Line 541: get_status() takes the lock.
Gs_Lock(t) ==
  /\ pc[t] = "gs_lock"
  /\ Acquires(t)
  /\ lock' = {t}
  /\ Goto(t, "gs_body")
  /\ KeepSup({"lock"})
  /\ UNCHANGED <<info, os, ctx, force, pend, after, loc, last, calls, cbv, lin>>

\* _update_basic_process_info past its test of line 178, lines 181-209, for
\* the child p: process_info becomes what psutil reports, or {} when psutil
\* raises; without psutil it is built from self.process.poll() (line 205),
\* which collects the exit status of a child that has exited.
UpdateBasicInfo(p) ==
  \/ \E i \in {{}, {"status"}} : process_info' = i /\ UNCHANGED child
  \/ /\ process_info' = {"status"}
     /\ child' = IF child[p] = "zombie" THEN [child EXCEPT ![p] = "reaped"] ELSE child

\* A get_status() that refreshes whenever it holds a child handle.
RefreshesWithHandle == process # None
\* Line 543: `if self.process and self.state == ProcessState.RUNNING`.
RefreshesInfo == process # None /\ state = RUNNING

\* Lines 543-568: with a child and the state Running the process information
\* and the ports are refreshed; the dictionary is built, the lock released
\* and get_status() returns to where it was called.
Gs_Body(t) ==
  /\ pc[t] = "gs_body"
  /\ IF RefreshesInfo
     THEN /\ UpdateBasicInfo(process)
          /\ IF ~process_ready_event /\ last_known_ports # {} /\ detected_ports = {}
             THEN detected_ports' = last_known_ports /\ UNCHANGED last_known_ports
             ELSE DetectPorts
     ELSE UNCHANGED <<info, child>>
  /\ lock' = {}
  /\ Goto(t, loc[t].gsret)
  /\ loc' = [loc EXCEPT ![t].gsret = "idle",
                        ![t].status = [ret |-> TRUE, pid |-> process,
                                       ports |-> SortedList(detected_ports')]]
  /\ KeepSup({"lock"})
  /\ UNCHANGED <<code, fd, ctx, force, pend, after, last, calls, cbv, lin>>

GetStatusStep(t) == Gs_Lock(t) \/ Gs_Body(t)

\* Lines 152-153.
Ref_Check(t) ==
  /\ pc[t] = "ref_check"
  /\ IF process = None THEN Goto(t, "done") ELSE Goto(t, "ref_wait")
  /\ UNCHANGED <<sup, info, os, ctx, force, pend, after, loc, last, calls, cbv, lin>>

\* Lines 156-162: the wait returns at once when the event is set; when it
\* times out the ports kept from before are shown again.
Ref_Wait(t) ==
  /\ pc[t] = "ref_wait"
  /\ detected_ports' = IF ~process_ready_event /\ last_known_ports # {} /\ detected_ports = {}
                       THEN last_known_ports ELSE detected_ports
  /\ Goto(t, "ref_detect")
  /\ UNCHANGED <<sup, process_info, last_known_ports, os, ctx, force, pend, after, loc, last, calls, cbv, lin>>

\* _detect_ports_from_process, lines 59-63: return without a child, else
\* take its pid.
Ref_Detect(t) ==
  /\ pc[t] = "ref_detect"
  /\ IF process = None
     THEN Goto(t, "ref_info") /\ UNCHANGED loc
     ELSE Goto(t, "ref_scan") /\ SetLoc(t, "tmp", process)
  /\ UNCHANGED <<sup, info, os, ctx, force, pend, after, last, calls, cbv, lin>>

\* Lines 64-136: the scan of the pid the thread has taken; it comes to a set
\* of ports or raises (no such process, no permission).  With keep, loc.probe
\* remembers the answers the methods gave.
ScanStep(t, keep) ==
  /\ pc[t] = "ref_scan"
  /\ \E probe \in Probes(Live(loc[t].tmp)) :
       LET found == Scan(probe)
           kept == IF keep THEN probe ELSE NoProbe
       IN IF found.how = "raises"
          THEN /\ loc' = [loc EXCEPT ![t].tmp = 0, ![t].probe = kept]
               /\ Goto(t, "ref_clear")
          ELSE /\ loc' = [loc EXCEPT ![t].ports = found.ports, ![t].tmp = 0,
                                     ![t].probe = kept]
               /\ Goto(t, "ref_update")
  /\ UNCHANGED <<sup, info, os, ctx, force, pend, after, last, calls, cbv, lin>>

Ref_Scan(t) == ScanStep(t, FALSE)

\* Lines 139-145, the writes of detected_ports.
Ref_Update(t) ==
  /\ pc[t] = "ref_update"
  /\ IF loc[t].ports # {}
     THEN /\ detected_ports' = loc[t].ports
          /\ Goto(t, "ref_update_lkp")
     ELSE /\ detected_ports' = IF detected_ports = {} /\ last_known_ports # {}
                               THEN last_known_ports ELSE detected_ports
          /\ Goto(t, "ref_info")
  /\ UNCHANGED <<sup, process_info, last_known_ports, os, ctx, force, pend, after, loc, last, calls, cbv, lin>>

\* Line 141.
Ref_UpdateLkp(t) ==
  /\ pc[t] = "ref_update_lkp"
  /\ last_known_ports' = loc[t].ports
  /\ Goto(t, "ref_info")
  /\ UNCHANGED <<sup, detected_ports, process_info, os, ctx, force, pend, after, loc, last, calls, cbv, lin>>

\* Lines 146-148: the handler of a scan that raised.
Ref_Clear(t) ==
  /\ pc[t] = "ref_clear"
  /\ detected_ports' = {}
  /\ Goto(t, "ref_info")
  /\ UNCHANGED <<sup, process_info, last_known_ports, os, ctx, force, pend, after, loc, last, calls, cbv, lin>>

\* _update_basic_process_info, lines 176-209: return without a child, else
\* process_info is rebuilt.
Ref_Info(t) ==
  /\ pc[t] = "ref_info"
  /\ IF process = None
     THEN UNCHANGED <<process_info, child>>
     ELSE UpdateBasicInfo(process)
  /\ loc' = [loc EXCEPT ![t] = NoLoc]
  /\ Goto(t, "done")
  /\ UNCHANGED <<sup, detected_ports, last_known_ports, code, fd, ctx, force, pend, after, last, calls, cbv, lin>>

RefreshStep(t) ==
  \/ Ref_Check(t) \/ Ref_Wait(t) \/ Ref_Detect(t) \/ Ref_Scan(t)
  \/ Ref_Update(t) \/ Ref_UpdateLkp(t) \/ Ref_Clear(t) \/ Ref_Info(t)

\* ------------------------------------------------------- the specification
\* Spec: the caller makes up to MaxCalls calls of start() and stop(), in any
\* order.
Next ==
  \/ calls < MaxCalls /\ CallStart
  \/ calls < MaxCalls /\ \E f \in BOOLEAN : CallStop(f)
  \/ \E t \in Threads : Notify(t)
  \/ \E t \in Threads : StartStep(t)
  \/ \E t \in Monitors : MonitorStep(t)
  \/ StopStep(Caller)
  \/ \E c \in Children, x \in ExitCodes : ChildExit(c, x)

Spec == Init /\ [][Next]_vars

\* SpecRestart: the caller calls start() and then restart().
NextRestart ==
  \/ calls = 0 /\ CallStart
  \/ calls = 1 /\ \E f \in BOOLEAN : CallRestart(f)
  \/ \E t \in Threads : Notify(t)
  \/ \E t \in Threads : StartStep(t)
  \/ \E t \in Monitors : MonitorStep(t)
  \/ StopStep(Caller)
  \/ RestartStep(Caller)
  \/ \E c \in Children, x \in ExitCodes : ChildExit(c, x)

SpecRestart == Init /\ [][NextRestart]_vars

\* SpecRace: auto_restart is on; the caller calls start() twice.
InitRace == Constructed(RaceSpawn, TRUE, MaxAttempts)

NextRace ==
  \/ calls < 2 /\ CallStart
  \/ \E t \in Threads : Notify(t)
  \/ \E t \in Threads : StartStep(t)
  \/ \E t \in Monitors : MonitorStep(t)
  \/ \E c \in Children, x \in ExitCodes : ChildExit(c, x)

SpecRace == InitRace /\ [][NextRace]_vars

\* SpecStop: the caller calls start() and then stop() twice.
NextStop ==
  \/ calls = 0 /\ CallStart
  \/ calls \in {1, 2} /\ \E f \in BOOLEAN : CallStop(f)
  \/ \E t \in Threads : Notify(t)
  \/ \E t \in Threads : StartStep(t)
  \/ \E t \in Monitors : MonitorStep(t)
  \/ StopStep(Caller)
  \/ \E c \in Children, x \in ExitCodes : ChildExit(c, x)

SpecStop == Init /\ [][NextStop]_vars

\* SpecInfo: one child can be spawned; the caller calls start() and then
\* stop(), while the reader and the refresh task run.
InitInfo == \E auto \in BOOLEAN : Constructed(1, auto, MaxAttempts)

NextInfo ==
  \/ calls = 0 /\ CallStart
  \/ calls = 1 /\ \E f \in BOOLEAN : CallStop(f)
  \/ \E t \in Threads : Notify(t)
  \/ \E t \in Threads : StartStep(t)
  \/ \E t \in Monitors : MonitorStep(t)
  \/ StopStep(Caller)
  \/ \E c \in Children, x \in ExitCodes : ChildExit(c, x)
  \/ Reader_Ready
  \/ RefreshStep(Refresher)

SpecInfo == InitInfo /\ [][NextInfo]_vars

\* SpecBudget: auto_restart is on; the caller calls start(), stop() and
\* start() again.
InitBudget == Constructed(MaxSpawn, TRUE, MaxAttempts)

NextBudget ==
  \/ calls \in {0, 2} /\ CallStart
  \/ calls = 1 /\ CallStop(FALSE)
  \/ \E t \in Threads : Notify(t)
  \/ \E t \in Threads : StartStep(t)
  \/ \E t \in Monitors : MonitorStep(t)
  \/ StopStep(Caller)
  \/ \E c \in Children, x \in ExitCodes : ChildExit(c, x)

SpecBudget == InitBudget /\ [][NextBudget]_vars

\* SpecCb: one child can be spawned; the caller registers up to two
\* callbacks, the first of them one that raises, then calls start() and
\* stop(), while the reader may see a
\* line that signals readiness.  (The refresh task is left out: it touches
\* neither the state nor the callbacks.)
InitCb == \E auto \in BOOLEAN : Constructed(1, auto, MaxAttempts)

NextCb ==
  \/ calls = 0 /\ \E c \in Cbs \ Reentrant : c = Len(state_callbacks) + 1 /\ AddCallback(c)
  \/ calls = 0 /\ CallStart
  \/ calls = 1 /\ \E f \in BOOLEAN : CallStop(f)
  \/ \E t \in Threads : Notify(t)
  \/ \E t \in Threads : StartStep(t)
  \/ \E t \in Monitors : MonitorStep(t)
  \/ StopStep(Caller)
  \/ \E c \in Children, x \in ExitCodes : ChildExit(c, x)
  \/ Reader_Ready
  \/ Nsc_Call(Reader)

SpecCb == InitCb /\ [][NextCb]_vars

\* SpecLock: one child can be spawned; the caller may register a callback
\* that calls get_status(), then calls start(); the child may exit and may
\* signal readiness.
NextLock ==
  \/ calls = 0 /\ state_callbacks = <<>> /\ \E c \in Reentrant : AddCallback(c)
  \/ calls = 0 /\ CallStart
  \/ \E t \in Threads : Notify(t)
  \/ \E t \in Threads : StartStep(t)
  \/ \E t \in Monitors : MonitorStep(t)
  \/ \E t \in Threads : GetStatusStep(t)
  \/ \E c \in Children, x \in ExitCodes : ChildExit(c, x)
  \/ Reader_Ready
  \/ Nsc_Call(Reader)

SpecLock == InitCb /\ [][NextLock]_vars

\* One session whose child may exit on its own, a line that makes it ready,
\* the port refresh, and get_status() called by the owner.
MaxStatusCalls == 3

NextStatus ==
  \/ calls = 0 /\ CallStart
  \/ calls > 0 /\ calls < MaxStatusCalls /\ CallGetStatus
  \/ \E t \in Threads : Notify(t)
  \/ \E t \in Threads : StartStep(t)
  \/ \E t \in Monitors : MonitorStep(t)
  \/ GetStatusStep(Caller)
  \/ \E c \in Children, x \in ExitCodes : ChildExit(c, x)
  \/ Reader_Ready
  \/ RefreshStep(Refresher)

SpecStatus == InitCb /\ [][NextStatus]_vars

\* A supervisor that is started or not, and shut down.
NextShut ==
  \/ calls = 0 /\ CallStart
  \/ calls < MaxCalls /\ graceful_shutdown
  \/ calls < MaxCalls /\ force_quit
  \/ \E t \in Threads : Notify(t)
  \/ \E t \in Threads : StartStep(t)
  \/ \E t \in Monitors : MonitorStep(t)
  \/ StopStep(Caller)
  \/ \E c \in Children, x \in ExitCodes : ChildExit(c, x)

SpecShut == Init /\ [][NextShut]_vars

\* A supervisor that is started once and whose auto_restart is toggled, at
\* any time, up to MaxToggles times.
MaxToggles == 3

NextToggle ==
  \/ calls = 0 /\ CallStart
  \/ calls < MaxToggles /\ toggle_auto_restart
  \/ \E t \in Threads : Notify(t)
  \/ \E t \in Threads : StartStep(t)
  \/ \E t \in Monitors : MonitorStep(t)
  \/ \E c \in Children, x \in ExitCodes : ChildExit(c, x)

SpecToggle == Init /\ [][NextToggle]_vars

\* _process_output called directly on a supervisor that was never started,
\* MaxFeed times, with chunks of text cut in every way that matters: empty,
\* with and without newlines, ending on and off a line boundary, and with a
\* ready pattern cut in two.
MaxFeed == 3
Chunks == { <<>>, <<"a">>, <<Nl>>, <<"a", Nl>>, <<Nl, "a">>, <<Nl, Nl>>,
            <<"O", "e">>, <<"k", Nl>> }

InitLines == Constructed(0, FALSE, MaxAttempts)

NextLines ==
  \/ calls < MaxFeed /\ \E text \in Chunks : CallProcessOutput(text)
  \/ ProcessOutputStep(Caller)

SpecLines == InitLines /\ [][NextLines]_vars

\* Two sessions, the second started by the watchdog after the child of the
\* first has exited, with children that write up to MaxOut characters and
\* reader threads that pass them on.
InitRead == Constructed(MaxSpawn, TRUE, MaxAttempts)

NextRead ==
  \/ calls = 0 /\ CallStart
  \/ \E t \in Threads : Notify(t)
  \/ \E t \in Threads : StartStep(t)
  \/ \E t \in Monitors : MonitorStep(t)
  \/ \E c \in Children, x \in ExitCodes : ChildExit(c, x)
  \/ \E c \in Children : \E text \in Writes(c) : ChildWrite(c, text, MaxOut)
  \/ \E r \in Readers : ReaderStep(r)

SpecRead == InitRead /\ [][NextRead]_vars

\* The same two sessions with children that write ready lines only, two
\* in all.
MaxReadyOut == 6
ReadyText == ReadyPattern \o <<Nl>>

NextReady ==
  \/ calls = 0 /\ CallStart
  \/ \E t \in Threads : Notify(t)
  \/ \E t \in Threads : StartStep(t)
  \/ \E t \in Monitors : MonitorStep(t)
  \/ \E c \in Children, x \in ExitCodes : ChildExit(c, x)
  \/ \E c \in Children : ChildWrite(c, ReadyText, MaxReadyOut)
  \/ \E r \in Readers : ReaderStep(r)

SpecReady == InitRead /\ [][NextReady]_vars

\* One session with up to two callbacks registered before it (the first one
\* raises), whose child writes ready lines and other lines, MaxNotifyOut
\* characters in all, and may exit.
MaxNotifyOut == 5
NotifyWrites == { ReadyText, <<"a", Nl>> }

NextNotify ==
  \/ calls = 0 /\ \E c \in Cbs \ Reentrant : c = Len(state_callbacks) + 1 /\ AddCallback(c)
  \/ calls = 0 /\ CallStart
  \/ \E t \in Threads : Notify(t)
  \/ \E t \in Threads : StartStep(t)
  \/ \E t \in Monitors : MonitorStep(t)
  \/ \E c \in Children, x \in ExitCodes : ChildExit(c, x)
  \/ \E c \in Children : \E text \in NotifyWrites : ChildWrite(c, text, MaxNotifyOut)
  \/ \E r \in Readers : ReaderStep(r)

SpecNotify == InitCb /\ [][NextNotify]_vars

\* ------------------------------------------------------------ observations
\* Steps of a thread, told by where it stands before and after.
Leaves(t, l) == pc[t] = l /\ pc'[t] # l
\* The watchdog t enters Restarting (line 408).
EntersRestarting(t) == Leaves(t, "mon_set_restarting")
\* The watchdog t calls start() (line 414).
WatchdogCallsStart(t) == Leaves(t, "mon_reset")
\* A child is spawned.
Spawns == \E c \in Children : child[c] = "none" /\ child'[c] = "alive"
\* A callback is invoked.
CallbackInvoked == \E t \in Threads : Leaves(t, "notify")
\* The caller is inside a stop() it called itself, past the test of line 436.
InManualStop ==
  /\ ctx[Caller] = "top"
  /\ pc[Caller] \in {"stop_set_stopping", "stop_running", "stop_kill", "stop_wait",
                     "stop_except", "stop_close", "stop_fd_none", "stop_proc_none",
                     "stop_clear_info", "stop_clear_ports", "stop_clear_ready",
                     "stop_set_stopped", "stop_ret"}
     \/ (pc[Caller] = "notify" /\ after[Caller] \in {"stop_running", "stop_ret"})
\* The caller's last call was a stop() that has returned.
StopReturned == pc[Caller] = "idle" /\ last.op = "stop"
\* Thread t invokes the next callback of its copy: with the new state of
\* _set_state, or with self.state as _notify_status_change reads it.
Invokes(t) ==
  /\ pc[t] \in {"notify", "nsc_call"}
  /\ snap[t] # <<>>
  /\ snap'[t] # snap[t]
Invoked(t) == Head(snap[t])
Passed(t) == IF pc[t] = "nsc_call" THEN state ELSE pend[t]
\* Every thread is at rest.
\* The concatenation of a sequence of texts.
RECURSIVE Flat(_)
Flat(texts) == IF texts = <<>> THEN <<>> ELSE Head(texts) \o Flat(Tail(texts))

\* The lines with their newlines, as on_output receives them.
Terminated(lines) == [i \in 1..Len(lines) |-> Append(lines[i], Nl)]

\* The number of newlines in a text.
Newlines(text) == Cardinality({i \in 1..Len(text) : text[i] = Nl})

AtRest == pc[Caller] = "idle" /\ \A t \in Monitors : pc[t] \in {"unborn", "done"}

\* ------------------------------------------------------------------ claims

\* C1: with auto_restart on, after stop() has been called on a Running
\* session no watchdog enters Restarting, calls start() or spawns a child,
\* and once that stop() has returned the state is Stopped until the next call.
C1_ManualStopNeverRestarts ==
  [][ /\ (auto_restart /\ InManualStop /\ loc[Caller].fr)
         => /\ \A t \in Monitors : ~EntersRestarting(t) /\ ~WatchdogCallsStart(t)
            /\ ~Spawns
      /\ (auto_restart /\ StopReturned /\ last.fr)
         => /\ state = STOPPED
            /\ \A t \in Monitors : ~EntersRestarting(t) /\ ~WatchdogCallsStart(t)
            /\ ~Spawns ]_vars

\* C2: with auto_restart on and only start() called, N = max_restart_attempts
\* nonzero exits are answered by N auto-restarts, one increment of
\* restart_count each, and after the (N+1)th nonzero exit the supervisor
\* comes to rest in Crashed with restart_count = N.
OnlyStartCalled == calls = 1 /\ last.op = "start"
C2_BudgetThenCrashed ==
  (auto_restart /\ OnlyStartCalled /\ \A c \in Exited : code[c] # 0)
    => /\ restart_count <= max_restart_attempts
       /\ (AtRest /\ Spawned = Exited /\ Cardinality(Spawned) = max_restart_attempts + 1)
            => (state = CRASHED /\ restart_count = max_restart_attempts)

\* C3: at most one child of the supervisor is alive at any time.
C3_OneLiveChild == Cardinality({c \in Children : Live(c)}) <= 1

\* C4: a watchdog that saw no manual stop and does not restart leaves the
\* state Stopped after exit code 0 and Crashed after any other, whatever
\* auto_restart and restart_count are.
C4_ExitCodeDecidesState ==
  [][ \A t \in Monitors :
        (Leaves(t, "mon_elif") /\ ~loc[t].is_manual_stop
           /\ state = ExitState(loc[t].exit_code))
          => state' = ExitState(loc[t].exit_code) ]_vars

\* C5: with auto_restart off and only start() called, once the child has
\* exited and every thread has finished, the state is Crashed or Stopped.
C5_ExitNeverMissed ==
  (~auto_restart /\ OnlyStartCalled /\ AtRest /\ Spawned # {} /\ Spawned = Exited)
    => state \in {STOPPED, CRASHED}

\* C6: when restart() has spawned the new child, no child of an earlier
\* session is alive without having been signalled and no earlier PTY master
\* is open; and restart() returns, the new child still alive, with state
\* Running and that child the only live one the supervisor holds.
C6_RestartReplacesSession ==
  /\ (ctx[Caller] = "restart" /\ pc[Caller] = "start_running")
       => /\ \A c \in Children \ {loc[Caller].spawned} : child[c] # "alive"
          /\ Cardinality({f \in Fds : fd[f] = "attached"}) <= 1
  /\ (ctx[Caller] = "restart" /\ pc[Caller] = "start_ret"
        /\ loc[Caller].spawned # 0 /\ Live(loc[Caller].spawned))
       => /\ state = RUNNING
          /\ process = loc[Caller].spawned
          /\ Cardinality({c \in Children : Live(c)}) = 1

\* C7: a start() that finds the state Running goes straight to its return:
\* neither that step nor the return changes an attribute, a child or a
\* descriptor, starts a thread or invokes a callback.
C7_StartNoopWhenRunning ==
  [][ \A t \in Threads :
        /\ (Leaves(t, "start_check") /\ state = RUNNING)
             => /\ pc'[t] = "start_ret"
                /\ UNCHANGED <<sup, info, os>>
                /\ \A u \in Threads \ {t} : pc'[u] = pc[u]
        /\ (Leaves(t, "start_ret") /\ loc[t].spawned = 0)
             => /\ pc'[t] \in {"idle", "done"}
                /\ UNCHANGED <<sup, info, os>>
                /\ \A u \in Threads \ {t} : pc'[u] = pc[u] ]_vars

\* The caller's second call, a start(), found the state Running and is about
\* to return without having spawned anything.
C7_Witness ==
  /\ pc[Caller] = "start_ret" /\ ctx[Caller] = "top" /\ loc[Caller].spawned = 0
  /\ calls = 2 /\ last.op = "start" /\ ~last.err
  /\ state = RUNNING /\ process # None /\ Live(process)
  /\ Cardinality(Spawned) = 1

\* C8: a start() of the caller in which openpty or Popen fails raises, with
\* the state Crashed as it returns and no watchdog launched by it; a stop()
\* called next returns without raising and with the state Stopped.
C8_FailedStartThenStop ==
  [][ /\ (Leaves(Caller, "start_raise") /\ ctx[Caller] = "top")
           => /\ last'.op = "start" /\ last'.err
              /\ state' = CRASHED
              /\ loc[Caller].spawned = 0
      /\ (ctx[Caller] = "top" /\ last.op = "start" /\ last.err
            /\ (Leaves(Caller, "stop_ret") \/ Leaves(Caller, "stop_noop")))
           => /\ last'.op = "stop" /\ ~last'.err
              /\ state' = STOPPED ]_vars

\* C9: of two stop() calls in a row each returns with the state Stopped and
\* without raising, and no step of the second sends a signal, closes a
\* descriptor or invokes a callback.
InStop(t) ==
  \/ pc[t] \in {"stop_check", "stop_noop", "stop_set_stopping", "stop_running",
                "stop_kill", "stop_wait", "stop_except", "stop_close",
                "stop_fd_none", "stop_proc_none", "stop_clear_info",
                "stop_clear_ports", "stop_clear_ready", "stop_set_stopped", "stop_ret"}
  \/ (pc[t] = "notify" /\ after[t] \in {"stop_running", "stop_ret"})
C9_StopIdempotent ==
  [][ /\ (ctx[Caller] = "top"
            /\ (Leaves(Caller, "stop_ret") \/ Leaves(Caller, "stop_noop")))
           => (state' = STOPPED /\ ~last'.err)
      /\ (ctx[Caller] = "top" /\ last.op = "stop" /\ InStop(Caller)
            /\ pc'[Caller] # pc[Caller])
           => /\ UNCHANGED <<child, code, fd>>
              /\ pc[Caller] # "notify" ]_vars

\* C10: a stop() of the caller that did not find the state Stopped (here:
\* one that signalled a child still alive) returns with the state Stopped,
\* no child handle, no PTY master, detected_ports and process_info empty,
\* the readiness event clear and last_known_ports as the call found it,
\* whatever the refresh task does meanwhile.
C10_StopPostconditions ==
  [][ (ctx[Caller] = "top" /\ Leaves(Caller, "stop_ret") /\ loc[Caller].sig)
        => /\ state' = STOPPED
           /\ process' = None
           /\ master_fd' = None
           /\ detected_ports' = {}
           /\ process_info' = {}
           /\ ~process_ready_event'
           /\ last_known_ports' = loc[Caller].lkp ]_vars

\* C11: the signals of one stop() call.  Line 449 sends one signal when the
\* lookup of the child's group succeeds, SIGKILL with force and SIGTERM
\* without, and none when it fails; the handler sends SIGKILL at most once,
\* never with force, and is entered only after the wait timed out or a
\* lookup failed; no other step sends a signal.  So a call sends at most two
\* signals, with force at most one and never SIGTERM, and never SIGTERM
\* after SIGKILL.
C11_SignalProtocol ==
  [][ LET s == loc[Caller].sigs
          s2 == loc'[Caller].sigs
      IN /\ Leaves(Caller, "stop_kill")
              => /\ s = <<>>
                 /\ IF process # None /\ child[process] # "reaped"
                    THEN s2 = <<IF force[Caller] THEN "SIGKILL" ELSE "SIGTERM">>
                    ELSE s2 = <<>>
         /\ (Leaves(Caller, "stop_kill") /\ pc'[Caller] = "stop_except")
              => (process # None /\ child[process] = "reaped")
         /\ (Leaves(Caller, "stop_wait") /\ pc'[Caller] = "stop_except")
              => Live(process)
         /\ Leaves(Caller, "stop_except")
              => /\ s2 \in {s, Append(s, "SIGKILL")}
                 /\ s2 # s => ~force[Caller]
                 /\ s2 \in {<<>>, <<"SIGKILL">>, <<"SIGTERM">>, <<"SIGTERM", "SIGKILL">>}
         /\ (~Leaves(Caller, "stop_kill") /\ ~Leaves(Caller, "stop_except"))
              => (s2 = s \/ s2 = <<>>)
         /\ (pc'[Caller] = "stop_except" /\ pc[Caller] # "stop_except")
              => pc[Caller] \in {"stop_kill", "stop_wait"} ]_vars

\* A stop(force=False) has sent SIGTERM, waited in vain and sent SIGKILL.
C11_Witness ==
  /\ pc[Caller] = "stop_close" /\ ~force[Caller]
  /\ loc[Caller].sigs = <<"SIGTERM", "SIGKILL">>
  /\ process # None /\ child[process] = "zombie"

\* C11 as stated: past the signals of a stop() that held a child handle, a
\* call with force has sent exactly one signal, SIGKILL; a call without has
\* sent SIGTERM first if it sent any, SIGKILL at most once, two at most.
C11_AsStated ==
  LET s == loc[Caller].sigs
  IN (pc[Caller] = "stop_close" /\ process # None)
       => IF force[Caller]
          THEN s = <<"SIGKILL">>
          ELSE s \in {<<>>, <<"SIGTERM">>, <<"SIGTERM", "SIGKILL">>}

\* C12: stop() goes through its cleanup whatever the termination reports.  A
\* lookup that fails sends no signal; os.close is called once when the master
\* is not None and never when it is, and the master is None after `finally`,
\* also when os.close raised; and a stop() of the caller whose lookup failed
\* returns without raising, having sent no signal, with the master None and
\* the state Stopped.
C12_StopCleansUp ==
  [][ /\ (Leaves(Caller, "stop_kill") /\ process # None /\ child[process] = "reaped")
           => (UNCHANGED <<child, code>> /\ loc'[Caller].sigs = <<>>)
      /\ Leaves(Caller, "stop_close")
           => IF master_fd = None
              THEN fd' = fd /\ loc'[Caller].closes = 0
              ELSE loc[Caller].closes = 0 /\ loc'[Caller].closes = 1
      /\ Leaves(Caller, "stop_fd_none")
           => (master_fd' = None /\ pc'[Caller] = "stop_proc_none")
      /\ (ctx[Caller] = "top" /\ Leaves(Caller, "stop_ret") /\ loc[Caller].gone)
           => /\ loc[Caller].sigs = <<>>
              /\ master_fd' = None
              /\ last'.op = "stop" /\ ~last'.err
              /\ state' = STOPPED ]_vars

\* C13: restart_count is 0 when restart() calls start() (the step that
\* leaves the locked block of lines 527-530) and is 0 when restart() returns
\* (here: while the watchdog of the session it started is still in its loop,
\* so that only a watchdog of the previous session can have written it).
C13_RestartResetsCount ==
  [][ /\ Leaves(Caller, "restart_reset")
           => (restart_count' = 0 /\ pc'[Caller] = "start_check")
      /\ (ctx[Caller] = "restart" /\ Leaves(Caller, "start_ret")
            /\ loc[Caller].spawned # 0
            /\ pc[loc[Caller].spawned] \in {"mon_loop", "mon_poll"})
           => (last'.op = "restart" /\ restart_count' = 0) ]_vars

\* C14: a start() of the caller that follows a completed stop() (no watchdog
\* was running when it began) and has spawned its child sets the state
\* Running with restart_count = 0 (the watchdog it launched still in its
\* loop).
C14_StartResetsCount ==
  [][ (ctx[Caller] = "top" /\ Leaves(Caller, "start_set_running")
         /\ last.op = "stop" /\ loc[Caller].afterstop
         /\ pc[loc[Caller].spawned] \in {"mon_loop", "mon_poll"})
        => (state' = RUNNING /\ restart_count' = 0) ]_vars

\* C15: no callback is invoked with the value it received in its previous
\* invocation (here: invoked while no call of the caller is in progress), and
\* a _set_state that finds the state at the new value copies no callback and
\* invokes none.
C15_NoRepeatedValue ==
  [][ \A t \in Threads :
        /\ (Invokes(t) /\ pc[Caller] = "idle") => got[Invoked(t)] # Passed(t)
        /\ (pc[t] # "notify" /\ pc'[t] = "notify") => state' # state ]_vars

\* C16: with a callback registered, every step that changes the state is a
\* step of _set_state: the thread that makes it has copied the registered
\* callbacks and is about to invoke them with the new value.
C16_EveryChangeNotified ==
  [][ (state' # state /\ state_callbacks # <<>>)
        => \E t \in Threads :
             /\ pc[t] # "notify" /\ pc'[t] = "notify"
             /\ pend'[t] = state'
             /\ snap'[t] = state_callbacks ]_vars

\* C17: with auto_restart off (every write of the state is then one of
\* _set_state), once the caller has made a call and every thread is at rest,
\* the value each registered callback received last is the current state.
C17_CallbacksInOrder ==
  (~auto_restart /\ calls > 0 /\ AtRest /\ pc[Reader] # "nsc_call")
    => \A i \in 1..Len(state_callbacks) : got[state_callbacks[i]] = state

\* C18: a thread that invokes a callback does not hold the state lock, and
\* a thread that enters get_status() from a callback does not wait for a
\* lock it holds itself.
C18_CallbacksOutsideLock ==
  [][ \A t \in Threads :
        /\ Invokes(t) => t \notin lock
        /\ pc'[t] = "gs_lock" => t \notin lock' ]_vars

\* The watchdog is inside the get_status() its callback called, holding the
\* lock, while the caller waits for the lock in the get_status() of its own
\* callback.
C18_Witness ==
  /\ state_callbacks = <<3>>
  /\ \E t \in Monitors : pc[t] = "gs_body" /\ lock = {t}
  /\ pc[Caller] = "gs_lock" /\ got[3] = RUNNING

\* C19: a notification of _set_state goes through the whole copy of the
\* callbacks, raising ones included.  The step that changes the state copies
\* every registered callback and keeps the new value; each turn of the loop
\* invokes the first callback not yet invoked with that value and drops only
\* that one from the copy, leaving the state alone; and after the last one
\* the operation goes on at the statement that follows _set_state.
C19_RaisingCallbackIsolated ==
  [][ \A t \in Threads :
        /\ (pc[t] # "notify" /\ pc'[t] = "notify")
             => /\ snap'[t] = state_callbacks
                /\ state' = pend'[t] /\ state' # state
        /\ (Invokes(t) /\ pc[t] = "notify")
             => /\ snap'[t] = Tail(snap[t])
                /\ got'[Invoked(t)] = pend[t]
                /\ \A c \in Cbs \ {Invoked(t)} : got'[c] = got[c]
                /\ state' = state
                /\ IF snap'[t] = <<>>
                   THEN pc'[t] = after[t]
                   ELSE pc'[t] = "notify" /\ pend'[t] = pend[t] /\ after'[t] = after[t] ]_vars

\* Both callbacks are registered; start() has set Running, the first
\* callback was invoked with it and raised, the second was invoked with it
\* too, and start() is about to return normally.
C19_Witness ==
  /\ state_callbacks = <<1, 2>> /\ 1 \in Raising
  /\ pc[Caller] = "start_ret" /\ ctx[Caller] = "top" /\ loc[Caller].spawned # 0
  /\ state = RUNNING /\ got[1] = RUNNING /\ got[2] = RUNNING

\* C20: when every thread is at rest (no start(), stop() or restart() is in
\* progress, in the caller or in a watchdog), the PTY master and the child
\* handle are both None or both not None.
C20_SessionAtomic ==
  AtRest => ((master_fd = None) <=> (process = None))

\* C21: the supervisor gives up its reference to a PTY master (by
\* allocating another in start() or by setting master_fd to None) only when
\* that master has been closed; here for a master on which a child was
\* spawned.
C21_MasterReleasedOnce ==
  [][ (master_fd # None /\ master_fd' # master_fd)
        => fd[master_fd] # "attached" ]_vars

\* C22: when the child has exited on its own with auto_restart off and the
\* watchdog has finished (state Crashed or Stopped), the dictionary that
\* get_status() returns has pid = None.
C22_PidNullAfterExit ==
  [][ ( /\ pc[Caller] = "gs_body" /\ pc'[Caller] = "idle"
        /\ ~auto_restart /\ ~stop_event
        /\ Exited # {} /\ NoWatchdog
        /\ state \in {CRASHED, STOPPED} )
      => loc'[Caller].status.pid = None ]_vars

\* C24: line reassembly is lossless.  Starting from an empty buffer, the
\* lines delivered so far, then those of the current call still to be
\* delivered, then the pending fragment, are together the text fed so far;
\* so between calls the delivered lines followed by the fragment are the
\* chunks fed, and there are as many delivered lines as the chunks have
\* newlines, however the text was cut into chunks.
C24_Lossless ==
  /\ Flat(delivered) \o Flat(Terminated(loc[Caller].lines)) \o buffer = fed
  /\ pc[Caller] = "idle" =>
       /\ Flat(delivered) \o buffer = fed
       /\ Len(delivered) = Newlines(fed)

C24_Witness ==
  /\ pc[Caller] = "idle" /\ calls = MaxFeed
  /\ Len(delivered) = 2 /\ buffer = <<"a">>
  /\ fed = <<"a", Nl, Nl, "a">>

\* C25: every line delivered to on_output ends with a newline that is its
\* only one, and outside the split the pending fragment holds no newline; a
\* call delivers as many lines as its chunk has newlines (none for an empty
\* chunk), each passed on with one newline added; a chunk that ends with a
\* newline leaves the fragment empty; and when the fragment was empty a chunk
\* of k newlines delivers k lines that are each a single newline.
C25_WellFormedLines ==
  [][ /\ \A i \in 1..Len(delivered') :
           /\ delivered'[i][Len(delivered'[i])] = Nl
           /\ Newlines(delivered'[i]) = 1
      /\ pc'[Caller] # "po_split" => Newlines(buffer') = 0
      /\ (pc[Caller] = "po_split" /\ pc'[Caller] # "po_split") =>
           LET text == loc[Caller].text
               fragment == SubSeq(buffer, 1, Len(buffer) - Len(text))
               lines == loc'[Caller].lines
           IN /\ Len(lines) = Newlines(text)
              /\ text = <<>> => lines = <<>> /\ pc'[Caller] = "idle"
              /\ (text # <<>> /\ text[Len(text)] = Nl) => buffer' = <<>>
              /\ (fragment = <<>> /\ Newlines(text) = Len(text)) =>
                   \A i \in 1..Len(lines) : lines[i] = <<>>
      /\ (pc[Caller] = "po_output" /\ pc'[Caller] # "po_output") =>
           /\ delivered' = Append(delivered, Append(Head(loc[Caller].lines), Nl))
           /\ loc'[Caller].lines = Tail(loc[Caller].lines)
           /\ (loc'[Caller].lines = <<>>) = (pc'[Caller] = "idle")
    ]_vars

C25_Witness ==
  /\ pc[Caller] = "idle" /\ calls = 2
  /\ fed = <<"a", Nl, Nl, Nl>>
  /\ delivered = << <<"a", Nl>>, <<Nl>>, <<Nl>> >>
  /\ buffer = <<>>

\* C25 as stated: whatever the pending fragment, a chunk of k newlines
\* delivers k lines that are each a single newline.
C25_AsStated ==
  [][ (pc[Caller] = "po_split" /\ pc'[Caller] # "po_split"
       /\ loc[Caller].text # <<>>
       /\ Newlines(loc[Caller].text) = Len(loc[Caller].text)) =>
        \A i \in 1..Len(loc'[Caller].lines) : loc'[Caller].lines[i] = <<>> ]_vars

\* C23: the incomplete-line buffer is empty when a session begins (when
\* start() has spawned its child), here with the reader threads of earlier
\* sessions ended; so that no line of the new session begins with text an
\* earlier child wrote.
C23_BufferEmptyAtStart ==
  [][ ( /\ \E t \in Threads : Leaves(t, "start_popen") /\ process' # process
        /\ \A r \in Readers : pc[r] \in {"unborn", "done"} )
        => buffer = <<>> ]_vars

\* C26: only the reader thread of a session reads what the child of that
\* session writes and appends it to the line buffer: text of child c is
\* taken from the PTY by the reader started with c, by no reader of an
\* earlier session.
C26_OneReaderPerMaster ==
  [][ \A r \in Readers, c \in Children :
        (Leaves(r, "rd_loop") /\ pipe'[c] # pipe[c]) => r = ReaderOf(c) ]_vars

\* C27: readiness fires at most once per session: a line sets the readiness
\* flag, starts the refresh thread and reports a transition only when the
\* flag is clear, so that between two resets of the flag at most one line
\* does.
C27_ReadyOncePerSession ==
  [][ fired' # fired => ~process_ready_event ]_vars

\* C28: graceful_shutdown() and force_quit() turn auto_restart off and call
\* stop(); once either has returned auto_restart is off and no watchdog
\* restarts: none calls start() and no child is spawned.
C28_NoRestartAfterShutdown ==
  [][ (pc[Caller] = "idle" /\ last.op = "shutdown") =>
        /\ ~auto_restart
        /\ \A t \in Monitors : ~WatchdogCallsStart(t)
        /\ ~Spawns ]_vars

C30_PortsSorted ==
  [][ (pc[Caller] = "gs_body" /\ pc'[Caller] # "gs_body") =>
        LET ports == loc'[Caller].status.ports
        IN /\ loc'[Caller].status.ret
           /\ \A i, j \in 1..Len(ports) : i < j => ports[i] < ports[j]
           /\ {ports[i] : i \in 1..Len(ports)} = detected_ports' ]_vars

C30_Witness ==
  /\ pc[Caller] = "idle"
  /\ loc[Caller].status.ret
  /\ loc[Caller].status.ports = <<8000, 8080>>
  /\ detected_ports = {8000, 8080}

\* C31: a watchdog that has read the manual-stop flag set (lines 385-386)
\* makes no state transition of its own, whatever restart_count is: neither
\* its inference (lines 390-394) nor the end of its loop (lines 418-420)
\* changes the state, so that Crashed is not set during a manual stop.
C31_ManualStopSilencesWatchdog ==
  [][ \A t \in Monitors :
        (loc[t].is_manual_stop
           /\ (Leaves(t, "mon_infer") \/ Leaves(t, "mon_lock2") \/ Leaves(t, "mon_elif")))
          => state' = state ]_vars

\* C32: when a stop() of the caller that signalled the child of its session
\* (the only child spawned so far) returns with the state Stopped, that child
\* has terminated and its exit status has been collected.
C32_StoppedMeansReaped ==
  [][ (ctx[Caller] = "top" /\ Leaves(Caller, "stop_ret") /\ state' = STOPPED
         /\ loc[Caller].sigs # <<>> /\ Cardinality(Spawned) = 1)
        => \A c \in Spawned : child[c] = "reaped" ]_vars

\* C33: a watchdog whose child exited with code 0 and that saw no manual
\* stop (here: the caller has called start() once and nothing else) does not
\* increment restart_count, does not enter Restarting and does not call
\* start().
C33_ZeroExitNeverRestarts ==
  [][ \A t \in Monitors :
        (calls = 1 /\ loc[t].exit_code = 0 /\ ~loc[t].is_manual_stop)
          => /\ ~Leaves(t, "mon_inc_write")
             /\ ~EntersRestarting(t)
             /\ ~WatchdogCallsStart(t) ]_vars

\* C34: restart_count never leaves the range 0..max_restart_attempts.
C34_CountWithinBudget ==
  restart_count >= 0 /\ restart_count <= max_restart_attempts

\* The arrows of the lifecycle: the pairs (from, to) of state values a
\* notified change may connect.
Arrows ==
  {<<s, STARTING>> : s \in {STOPPED, CRASHED, RESTARTING}}
    \cup {<<STARTING, RUNNING>>, <<CRASHED, RESTARTING>>}
    \cup {<<s, STOPPING>> : s \in ProcessState \ {STOPPED, STOPPING}}
    \cup {<<STOPPING, STOPPED>>, <<RUNNING, STOPPED>>}
    \cup {<<STARTING, CRASHED>>, <<RUNNING, CRASHED>>}

\* C35: every change of the state that _set_state makes and notifies is an
\* arrow of the lifecycle; Stopping is entered only by stop(), and Stopped
\* from Running only by a watchdog whose child exited with code 0.
C35_LifecycleArrows ==
  [][ \A t \in Threads :
        (pc[t] # "notify" /\ pc'[t] = "notify" /\ state' # state)
          => /\ <<state, state'>> \in Arrows
             /\ state' = STOPPING => pc[t] = "stop_set_stopping"
             /\ (state = RUNNING /\ state' = STOPPED)
                  => (pc[t] = "mon_infer" /\ loc[t].exit_code = 0) ]_vars

\* C36: a reader thread notifies the callbacks only for a line that fires
\* readiness, and then before the line goes to on_output.  The step that
\* fires (sets the flag) starts the refresh task and delivers nothing; the
\* next step copies every registered callback; each turn that follows invokes
\* the first callback of the copy not yet invoked, with the state as it is,
\* drops only that one (also when it raised) and leaves the state alone;
\* on_output receives the line when the copy is used up.  A reader invokes
\* callbacks nowhere else, and reaches the notification only through a line
\* that a ready pattern matches while the flag is clear.
C36_ReadyNotifiesBeforeOutput ==
  [][ \A r \in Readers :
        /\ Leaves(r, "po_check")
             => /\ pc'[r] = IF ~process_ready_event /\ ReadyLine(Head(loc[r].lines))
                            THEN "po_set" ELSE "po_output"
                /\ \A c \in Cbs : got'[c] = got[c]
                /\ snap'[r] = <<>>
        /\ Leaves(r, "po_set")
             => /\ process_ready_event' /\ fired' = fired + 1
                /\ pc'[r] = "po_notify"
                /\ pc[Refresher] \in {"unborn", "done"} => pc'[Refresher] = "ref_check"
                /\ delivered' = delivered
        /\ Leaves(r, "po_notify")
             => /\ snap'[r] = state_callbacks
                /\ pc'[r] = "nsc_call"
                /\ delivered' = delivered
        /\ Invokes(r)
             => /\ pc[r] = "nsc_call"
                /\ snap'[r] = Tail(snap[r])
                /\ got'[Invoked(r)] = state
                /\ \A c \in Cbs \ {Invoked(r)} : got'[c] = got[c]
                /\ state' = state /\ delivered' = delivered
                /\ pc'[r] = IF snap'[r] = <<>> THEN "po_output" ELSE "nsc_call"
        /\ Leaves(r, "po_output")
             => /\ snap[r] = <<>>
                /\ delivered' = Append(delivered, Append(Head(loc[r].lines), Nl))
                /\ \A c \in Cbs : got'[c] = got[c]
        /\ (pc'[r] = "nsc_call" /\ pc[r] # "nsc_call") => pc[r] = "po_notify"
        /\ (pc'[r] = "po_notify" /\ pc[r] # "po_notify") => pc[r] = "po_set"
        /\ (pc'[r] = "po_set" /\ pc[r] # "po_set") => pc[r] = "po_check" ]_vars

\* Both callbacks are registered and the session is Running; a ready line
\* has fired readiness and started the refresh task, the reader has invoked
\* the first callback, which raised, and the second, and is about to pass
\* the line to on_output, nothing delivered so far.
C36_Witness ==
  /\ state_callbacks = <<1, 2>> /\ 1 \in Raising
  /\ state = RUNNING /\ got[1] = RUNNING /\ got[2] = RUNNING
  /\ \E r \in Readers :
       /\ pc[r] = "po_output" /\ snap[r] = <<>>
       /\ ReadyLine(Head(loc[r].lines))
  /\ fired = 1 /\ process_ready_event
  /\ pc[Refresher] = "ref_check"
  /\ delivered = <<>>
  /\ pc[Caller] = "idle"

\* C37: the writes of the shared attributes are made under the lock, so that
\* no update of restart_count is lost: the store of `restart_count += 1`
\* (line 407) leaves the counter one above the value it finds.
C37_NoLostUpdate ==
  [][ \A t \in Monitors :
        Leaves(t, "mon_inc_write") => restart_count' = restart_count + 1 ]_vars

\* C38: the steps of get_status() leave the lifecycle alone: the state,
\* restart_count, auto_restart, the manual-stop and readiness flags, the
\* child handle, the PTY master and the running flag keep their values; no
\* child is signalled (none that lives stops living), no descriptor is
\* closed, no callback is copied or invoked, no other thread moves.  The
\* ports and the process information change only in the step that finds a
\* child handle and the state Running; otherwise nothing changes at all
\* but the lock and the position and result of the calling thread.
C38_StatusReadOnly ==
  [][ \A t \in Threads :
        (Leaves(t, "gs_lock") \/ Leaves(t, "gs_body"))
          => /\ UNCHANGED <<state, restart_count, auto_restart, stop_event,
                            process_ready_event, process, master_fd, running,
                            max_restart_attempts>>
             /\ UNCHANGED <<code, fd, cbv, lin, ctx, force, pend, after, last>>
             /\ \A c \in Children : Live(c) => child'[c] = child[c]
             /\ \A u \in Threads \ {t} : pc'[u] = pc[u] /\ loc'[u] = loc[u]
             /\ (pc[t] = "gs_lock" \/ ~(process # None /\ state = RUNNING))
                  => UNCHANGED <<info, os>> ]_vars

\* A get_status() of the caller has returned while the state is Crashed and
\* the handle of the child that exited is still held: the ports found while
\* the session ran are still there, and reported.
C38_Witness ==
  /\ pc[Caller] = "idle" /\ loc[Caller].status.ret
  /\ state = CRASHED /\ process # None /\ child[process] = "reaped"
  /\ loc[Caller].status.pid = process
  /\ detected_ports = {8000} /\ last_known_ports = {8000}
  /\ loc[Caller].status.ports = <<8000>>
  /\ calls = MaxStatusCalls

\* ------------------------------------------------ the port discovery chain
\* The refresh whose scan remembers what each method answered.
Ref_Probe(t) == ScanStep(t, TRUE)

\* SpecPorts: one start(); the readiness line starts the refresh thread, and
\* its scan meets every combination of answers of psutil, netstat and lsof.
NextPorts ==
  \/ calls = 0 /\ CallStart
  \/ \E t \in Threads : Notify(t)
  \/ \E t \in Threads : StartStep(t)
  \/ \E t \in Monitors : MonitorStep(t)
  \/ \E c \in Children, x \in ExitCodes : ChildExit(c, x)
  \/ Reader_Ready
  \/ Ref_Check(Refresher) \/ Ref_Wait(Refresher) \/ Ref_Detect(Refresher)
  \/ Ref_Probe(Refresher)
  \/ Ref_Update(Refresher) \/ Ref_UpdateLkp(Refresher)
  \/ Ref_Clear(Refresher) \/ Ref_Info(Refresher)

SpecPorts == InitCb /\ [][NextPorts]_vars

\* The ports of the first method, in the order psutil, netstat, lsof, that
\* reports a port; none when no method reports one.
FirstNonEmpty(probe) ==
  IF probe.psutil.ports # {} THEN probe.psutil.ports
  ELSE IF probe.netstat.ports # {} THEN probe.netstat.ports
  ELSE probe.lsof.ports

\* C39: port discovery tries psutil, then netstat, then lsof; the next method
\* is tried whenever the one before it reports no port, also when that one is
\* available and ran, and the result of a scan in which no method raises is
\* the port set of the first method that reports one.
C39_FirstNonEmptyWins ==
  [][ \A t \in {Refresher} :
        (Leaves(t, "ref_scan") /\ pc'[t] = "ref_update")
          => loc'[t].ports = FirstNonEmpty(loc'[t].probe) ]_vars

\* C40: in a running session, a port refresh that finds no port leaves
\* detected_ports at its previous value if that was non-empty, else at
\* last_known_ports; a refresh that finds the non-empty set P ends with
\* detected_ports = last_known_ports = P; a refresh whose scan raises clears
\* detected_ports and leaves last_known_ports as it was.
C40_RefreshKeepsKnownPorts ==
  [][ (state = RUNNING /\ process # None) =>
        /\ (Leaves(Refresher, "ref_update") /\ loc[Refresher].ports = {})
             => /\ detected_ports' = IF detected_ports # {} THEN detected_ports
                                     ELSE last_known_ports
                /\ last_known_ports' = last_known_ports
        /\ Leaves(Refresher, "ref_update_lkp")
             => /\ detected_ports' = loc[Refresher].ports
                /\ last_known_ports' = loc[Refresher].ports
        /\ Leaves(Refresher, "ref_clear")
             => /\ detected_ports' = {}
                /\ last_known_ports' = last_known_ports
                /\ pc'[Refresher] = "ref_info" ]_vars

====
